---- MODULE Spec2Model ----
(***************************************************************************)
(* ERP_APP: the Express API (auth gate, registration / login / logout,     *)
(* validation gate, CRUD storage, central error handler) as a state        *)
(* machine.  One action per HTTP request; a request runs its whole         *)
(* middleware chain (protect, validate, handler, errorHandler).            *)
(*                                                                         *)
(* Conventions                                                             *)
(*   - a JSON body is a record holding only the fields that are present;   *)
(*   - a message is a sequence of text fragments, so that the client's     *)
(*     String.includes is a search and not an equality;                    *)
(*   - the clock counts minutes; jsonwebtoken's seconds are below the      *)
(*     resolution of the model;                                            *)
(*   - an ObjectId is a natural number, its toString() is ToString.        *)
(***************************************************************************)
EXTENDS Integers, Sequences, FiniteSets, TLC

VARIABLES users, store, nextId, now, issued, req, res, handled, reqUser,
          registered, loggedOut, inflight, browser

vars == <<users, store, nextId, now, issued, req, res, handled, reqUser,
          registered, loggedOut, inflight, browser>>

(***************************************************************************)
(* Bounds of the model                                                     *)
(***************************************************************************)
MaxClock == 61
MaxTokens == 1
MaxDocs == 2
MaxClients == 2

(***************************************************************************)
(* Program constants                                                       *)
(***************************************************************************)
JWT_EXPIRES_IN == 60

JWT_SECRET == "supersecretjwtkey"

(***************************************************************************)
(* Input domains                                                           *)
(***************************************************************************)
Emails == {"a@x.com", "b@x.com"}

Passwords == {"pw1", "pw2"}

Salts == {"s1"}

\* The clock is sampled at the start and from one minute before the first
\* token can expire.
Instants ==
  {0} \cup ((JWT_EXPIRES_IN - 1)..MaxClock)

(***************************************************************************)
(* Errors and the central error handler                                    *)
(***************************************************************************)
ApiError(message, statusCode) ==
  [name |-> "Error", message |-> message, statusCode |-> statusCode, code |-> 0,
   value |-> ""]

LibError(name, message) ==
  [name |-> name, message |-> message, statusCode |-> 0, code |-> 0, value |-> ""]

DuplicateKeyError ==
  [name |-> "MongoServerError", message |-> <<"E11000 duplicate key error">>,
   statusCode |-> 0, code |-> 11000, value |-> ""]

\* errorHandler without the overrides by the error's name and code
errorHandler_StatusOfError(err) ==
  [status |-> IF err.statusCode # 0 THEN err.statusCode ELSE 500,
   body |-> [success |-> FALSE,
             message |-> IF err.message # << >> THEN err.message ELSE <<"Server Error">>]]

\* errorHandler: the overrides are applied in source order, each one
\* looking at the ORIGINAL err; the last matching one wins.
errorHandler(err) ==
  LET e0 == [statusCode |-> err.statusCode, message |-> err.message]
      e1 == IF err.name = "CastError"
              THEN [statusCode |-> 404, message |-> <<"Resource not found with id of ", err.value>>]
              ELSE e0
      e2 == IF err.code = 11000
              THEN [statusCode |-> 400, message |-> <<"Duplicate field value entered">>]
              ELSE e1
      e3 == IF err.name = "ValidationError"
              THEN [statusCode |-> 400, message |-> err.message]
              ELSE e2
      e4 == IF err.name = "JsonWebTokenError"
              THEN [statusCode |-> 401, message |-> <<"Not authorized, token failed">>]
              ELSE e3
      e5 == IF err.name = "TokenExpiredError"
              THEN [statusCode |-> 401, message |-> <<"Not authorized, token expired">>]
              ELSE e4
  IN [status |-> IF e5.statusCode # 0 THEN e5.statusCode ELSE 500,
      body |-> [success |-> FALSE,
                message |-> IF e5.message # << >> THEN e5.message ELSE <<"Server Error">>]]

(***************************************************************************)
(* Token service (jsonwebtoken)                                            *)
(***************************************************************************)
JwtHeader == [alg |-> "HS256", typ |-> "JWT"]

\* HMAC of the first two segments under a key
Mac(header, payload, key) == [key |-> key, over |-> <<header, payload>>]

jwtSign(payload, secret, expiresIn, t) ==
  LET p == [userId |-> payload.userId, iat |-> t, exp |-> t + expiresIn]
  IN <<JwtHeader, p, Mac(JwtHeader, p, secret)>>

\* generateToken with the lifetime given in hours read as days
generateToken_OneDay(userId, t) ==
  jwtSign([userId |-> ToString(userId)], JWT_SECRET, 24 * JWT_EXPIRES_IN, t)

generateToken(userId, t) ==
  jwtSign([userId |-> ToString(userId)], JWT_SECRET, JWT_EXPIRES_IN, t)

\* jwt.verify looking at the expiry of the payload before the signature
jwtVerify_ExpiryFirst(token, secret, t) ==
  IF Len(token) # 3
    THEN [ok |-> FALSE, error |-> LibError("JsonWebTokenError", <<"jwt malformed">>)]
  ELSE IF t >= token[2].exp
    THEN [ok |-> FALSE, error |-> LibError("TokenExpiredError", <<"jwt expired">>)]
  ELSE IF token[3] # Mac(token[1], token[2], secret)
    THEN [ok |-> FALSE, error |-> LibError("JsonWebTokenError", <<"invalid signature">>)]
  ELSE [ok |-> TRUE, decoded |-> token[2]]

\* jwt.verify: segment count, then signature, then expiry
jwtVerify(token, secret, t) ==
  IF Len(token) # 3
    THEN [ok |-> FALSE, error |-> LibError("JsonWebTokenError", <<"jwt malformed">>)]
  ELSE IF token[3] # Mac(token[1], token[2], secret)
    THEN [ok |-> FALSE, error |-> LibError("JsonWebTokenError", <<"invalid signature">>)]
  ELSE IF t >= token[2].exp
    THEN [ok |-> FALSE, error |-> LibError("TokenExpiredError", <<"jwt expired">>)]
  ELSE [ok |-> TRUE, decoded |-> token[2]]

(***************************************************************************)
(* Password hashing (bcryptjs)                                             *)
(***************************************************************************)
hashPassword(password, salt) == [salt |-> salt, digest |-> <<salt, password>>]

\* comparePassword whose promise is tested instead of its result
comparePassword_Unawaited(password, hashedPassword) == TRUE

comparePassword(password, hashedPassword) ==
  hashPassword(password, hashedPassword.salt) = hashedPassword

(***************************************************************************)
(* Auth gate                                                               *)
(***************************************************************************)
StartsWithBearer(s) == s \in {"Bearer", "BearerToken"}

\* protect reading the payload without verifying it (jwt.decode)
protect_DecodeOnly(authorization, t) ==
  LET hasToken == /\ Len(authorization) > 0
                  /\ StartsWithBearer(authorization[1])
                  /\ Len(authorization) >= 2
  IN IF ~hasToken
       THEN [ok |-> FALSE, error |-> ApiError(<<"Not authorized, no token">>, 401)]
       ELSE IF Len(authorization[2]) # 3
         THEN [ok |-> FALSE, error |-> LibError("JsonWebTokenError", <<"jwt malformed">>)]
         ELSE [ok |-> TRUE, user |-> authorization[2][2].userId]

\* protect followed by a role check that lets only an admin through
protect_AdminOnly(authorization, t) ==
  LET hasToken == /\ Len(authorization) > 0
                  /\ StartsWithBearer(authorization[1])
                  /\ Len(authorization) >= 2
  IN IF ~hasToken
       THEN [ok |-> FALSE, error |-> ApiError(<<"Not authorized, no token">>, 401)]
       ELSE LET v == jwtVerify(authorization[2], JWT_SECRET, t)
            IN IF ~v.ok THEN [ok |-> FALSE, error |-> v.error]
               ELSE IF \E u \in users : ToString(u._id) = v.decoded.userId /\ u.role = "admin"
                 THEN [ok |-> TRUE, user |-> v.decoded.userId]
                 ELSE [ok |-> FALSE, error |-> ApiError(<<"Not authorized as an admin">>, 403)]

\* An Authorization header is the sequence of its space-separated parts;
\* the empty sequence is "no header".
protect(authorization, t) ==
  LET hasToken == /\ Len(authorization) > 0
                  /\ StartsWithBearer(authorization[1])
                  /\ Len(authorization) >= 2
  IN IF ~hasToken
       THEN [ok |-> FALSE, error |-> ApiError(<<"Not authorized, no token">>, 401)]
       ELSE LET v == jwtVerify(authorization[2], JWT_SECRET, t)
            IN IF v.ok THEN [ok |-> TRUE, user |-> v.decoded.userId]
                       ELSE [ok |-> FALSE, error |-> v.error]

(***************************************************************************)
(* State                                                                   *)
(*   users    the users collection                                         *)
(*   store    the products, orders, employees, transactions collections    *)
(*   nextId   the next fresh ObjectId of each collection                   *)
(*   now      Date.now(), in minutes                                       *)
(*   issued   the tokens the server has handed out (held by clients)       *)
(*   req      the request answered at this instant: route, Authorization   *)
(*            header, :id parameter as text ("" if none) and body          *)
(*   res      the response to it: status and JSON body                     *)
(*   handled  the route handler that ran for it, "none" if none did        *)
(*   reqUser  req.user, the user id protect attached ("" if none)          *)
(* History                                                                 *)
(*   registered  the <<email, password>> pairs of the registrations that   *)
(*               were answered 201                                         *)
(*   loggedOut   the tokens still held that a logout that ran was given    *)
(* Requests in flight                                                      *)
(*   inflight  for each connection, the request whose handler is waiting   *)
(*             on the database or has answered: a request that is taken    *)
(*             in steps, so that the steps of two requests interleave      *)
(***************************************************************************)
Collections == {"products", "orders", "employees", "transactions"}

NoRequest == [route |-> "none", authorization |-> << >>, id |-> "", body |-> << >>]

NoResponse == [status |-> 0, body |-> << >>]

Connections == 1..MaxClients

\* stored: whether the product of the id, or the user of the email, was
\* stored when the request arrived (kept for the properties only); res: the
\* response, sent when pc is "done"
Idle ==
  [pc |-> "idle", route |-> "none", id |-> "", body |-> << >>, stored |-> FALSE,
   res |-> NoResponse]

\* The components of the client that call useAuth(): each call is a state of
\* its own (useState), shared with no other component
Components == {"Router", "Landing", "Dashboard", "Inventory", "Header", "Sidebar"}

\* useState(true) for isLoading, useState(false) for isAuthenticated
Mounting == [mounted |-> TRUE, isLoading |-> TRUE, isAuthenticated |-> FALSE]

NotMounted == [mounted |-> FALSE, isLoading |-> TRUE, isAuthenticated |-> FALSE]

\* No document is loaded and localStorage is empty
NoDocument ==
  [document |-> "none", path |-> "", token |-> << >>, user |-> "",
   auth |-> [c \in Components |-> NotMounted], rejected |-> << >>, errors |-> {}]

Init ==
  /\ users = {}
  /\ store = [c \in Collections |-> {}]
  /\ nextId = [c \in Collections |-> 1]
  /\ now = 0
  /\ issued = {}
  /\ req = NoRequest
  /\ res = NoResponse
  /\ handled = "none"
  /\ reqUser = ""
  /\ registered = {}
  /\ loggedOut = {}
  /\ inflight = [k \in Connections |-> Idle]
  /\ browser = NoDocument

Has(body, f) == f \in DOMAIN body

\* new ObjectId: users are never deleted, so the count names a fresh id
NewUserId == Cardinality(users) + 1

(***************************************************************************)
(* POST /api/auth/register                                                 *)
(***************************************************************************)
RegisterBodies ==
  {[email |-> e, password |-> p, firstName |-> "Ann", lastName |-> "Lee"] :
     e \in Emails, p \in Passwords}
  \cup {[email |-> e, firstName |-> "Ann", lastName |-> "Lee"] : e \in Emails}
  \cup {[email |-> e, password |-> p, firstName |-> "Ann", lastName |-> "Lee",
         role |-> "admin"] : e \in Emails, p \in Passwords}

\* the document built from the whole body (new User({...req.body, ...}))
NewUserDoc_WholeBody(body, hashed, id, t) ==
  [_id |-> id, email |-> body.email, password |-> hashed,
   firstName |-> body.firstName, lastName |-> body.lastName,
   profileImageUrl |-> "", role |-> IF Has(body, "role") THEN body.role ELSE "staff",
   createdAt |-> t]

\* What the handler stores: only the four destructured fields reach the document
NewUserDoc(body, hashed, id, t) ==
  [_id |-> id, email |-> body.email, password |-> hashed,
   firstName |-> body.firstName, lastName |-> body.lastName,
   profileImageUrl |-> "", role |-> "staff", createdAt |-> t]

\* Model.save() on a collection without the unique index
UserSave_NoIndex(coll, doc) == [ok |-> TRUE, coll |-> coll \cup {doc}]

\* Model.save(): the unique index on email
UserSave(coll, doc) ==
  IF \E u \in coll : u.email = doc.email
    THEN [ok |-> FALSE, error |-> DuplicateKeyError, coll |-> coll]
    ELSE [ok |-> TRUE, coll |-> coll \cup {doc}]

AuthBody(user, token) ==
  [id |-> ToString(user._id), email |-> user.email, firstName |-> user.firstName,
   lastName |-> user.lastName, role |-> user.role, token |-> token]

Fail(err) ==
  /\ res' = errorHandler(err)
  /\ UNCHANGED <<users, store, nextId, issued>>

\* registerUser answering a duplicate email with 409 Conflict
registerUser_Conflict(body, salt) ==
  LET existingUser == {u \in users : u.email = body.email}
  IN IF existingUser # {}
       THEN Fail(ApiError(<<"User already exists">>, 409))
     ELSE IF ~Has(body, "password")
       THEN Fail(LibError("Error", <<"Illegal arguments: undefined, string">>))
     ELSE LET newUser == NewUserDoc(body, hashPassword(body.password, salt), NewUserId, now)
              saved == UserSave(users, newUser)
              token == generateToken(newUser._id, now)
          IN IF ~saved.ok
               THEN Fail(saved.error)
               ELSE /\ Cardinality(issued \cup {token}) <= MaxTokens
                    /\ users' = saved.coll
                    /\ issued' = issued \cup {token}
                    /\ res' = [status |-> 201, body |-> AuthBody(newUser, token)]
                    /\ UNCHANGED <<store, nextId>>

registerUser(body, salt) ==
  LET existingUser == {u \in users : u.email = body.email}
  IN IF existingUser # {}
       THEN Fail(ApiError(<<"User already exists">>, 400))
     ELSE IF ~Has(body, "password")
       THEN Fail(LibError("Error", <<"Illegal arguments: undefined, string">>))
     ELSE LET newUser == NewUserDoc(body, hashPassword(body.password, salt), NewUserId, now)
              saved == UserSave(users, newUser)
              token == generateToken(newUser._id, now)
          IN IF ~saved.ok
               THEN Fail(saved.error)
               ELSE /\ Cardinality(issued \cup {token}) <= MaxTokens
                    /\ users' = saved.coll
                    /\ issued' = issued \cup {token}
                    /\ res' = [status |-> 201, body |-> AuthBody(newUser, token)]
                    /\ UNCHANGED <<store, nextId>>

RegisterExchange(body, salt) ==
  /\ req' = [route |-> "POST /api/auth/register", authorization |-> << >>,
             id |-> "", body |-> body]
  /\ handled' = "registerUser"
  /\ reqUser' = ""
  /\ registerUser(body, salt)
  /\ registered' = IF res'.status = 201
                     THEN registered \cup {<<body.email, body.password>>}
                     ELSE registered
  /\ UNCHANGED <<now, loggedOut, inflight>>

Register(body, salt) == RegisterExchange(body, salt) /\ UNCHANGED browser

(***************************************************************************)
(* POST /api/auth/login                                                    *)
(***************************************************************************)
LoginBodies ==
  {[email |-> e, password |-> p] : e \in Emails, p \in Passwords}
  \cup {[email |-> e] : e \in Emails}

\* loginUser telling an unknown email from a wrong password
loginUser_TellsApart(body) ==
  LET found == {u \in users : u.email = body.email}
  IN IF found = {}
       THEN Fail(ApiError(<<"User not found">>, 404))
     ELSE LET user == CHOOSE u \in found : TRUE
          IN IF ~Has(body, "password")
               THEN Fail(LibError("Error", <<"Illegal arguments: undefined, string">>))
             ELSE IF ~comparePassword(body.password, user.password)
               THEN Fail(ApiError(<<"Invalid credentials">>, 400))
             ELSE LET token == generateToken(user._id, now)
                  IN /\ Cardinality(issued \cup {token}) <= MaxTokens
                     /\ issued' = issued \cup {token}
                     /\ res' = [status |-> 200, body |-> AuthBody(user, token)]
                     /\ UNCHANGED <<users, store, nextId>>

loginUser(body) ==
  LET found == {u \in users : u.email = body.email}
  IN IF found = {}
       THEN Fail(ApiError(<<"Invalid credentials">>, 400))
     ELSE LET user == CHOOSE u \in found : TRUE
          IN IF ~Has(body, "password")
               THEN Fail(LibError("Error", <<"Illegal arguments: undefined, string">>))
             ELSE IF ~comparePassword(body.password, user.password)
               THEN Fail(ApiError(<<"Invalid credentials">>, 400))
             ELSE LET token == generateToken(user._id, now)
                  IN /\ Cardinality(issued \cup {token}) <= MaxTokens
                     /\ issued' = issued \cup {token}
                     /\ res' = [status |-> 200, body |-> AuthBody(user, token)]
                     /\ UNCHANGED <<users, store, nextId>>

LoginExchange(body) ==
  /\ req' = [route |-> "POST /api/auth/login", authorization |-> << >>,
             id |-> "", body |-> body]
  /\ handled' = "loginUser"
  /\ reqUser' = ""
  /\ loginUser(body)
  /\ UNCHANGED <<now, registered, loggedOut, inflight>>

Login(body) == LoginExchange(body) /\ UNCHANGED browser

(***************************************************************************)
(* Time                                                                    *)
(***************************************************************************)
\* Time passes; the exchange that was answered is over.
Advance(t) ==
  /\ t > now
  /\ now' = t
  /\ req' = NoRequest
  /\ res' = NoResponse
  /\ handled' = "none"
  /\ reqUser' = ""
  /\ UNCHANGED <<users, store, nextId, issued, registered, loggedOut, inflight, browser>>

Tick == \E t \in Instants : Advance(t)

(***************************************************************************)
(* Validation layer (zod schemas of shared/schema.ts)                      *)
(* A JSON value of a CRUD body is tagged with its typeof.                  *)
(***************************************************************************)
Str(v) == [t |-> "string", v |-> v]

Num(n) == [t |-> "number", v |-> n]

F(name, kind, msg, optional, values) ==
  [name |-> name, kind |-> kind, msg |-> msg, optional |-> optional, values |-> values]

insertProductSchema ==
  << F("name", "nonempty", "Product name is required", FALSE, {}),
     F("description", "string", "", TRUE, {}),
     F("sku", "nonempty", "SKU is required", FALSE, {}),
     F("category", "nonempty", "Category is required", FALSE, {}),
     F("price", "positive", "Price must be a positive number", FALSE, {}),
     F("stock", "intMin0", "Stock cannot be negative", FALSE, {}),
     F("status", "enum", "'active' | 'discontinued'", TRUE, {"active", "discontinued"}),
     F("imageUrl", "url", "Invalid image URL", TRUE, {}) >>

insertOrderSchema ==
  << F("orderNumber", "nonempty", "Order number is required", FALSE, {}),
     F("customerName", "nonempty", "Customer name is required", FALSE, {}),
     F("customerEmail", "email", "Invalid email address", TRUE, {}),
     F("totalAmount", "positive", "Total amount must be positive", FALSE, {}),
     F("status", "enum", "'pending' | 'processing' | 'completed' | 'cancelled'", TRUE,
       {"pending", "processing", "completed", "cancelled"}),
     F("type", "enum", "'sale' | 'purchase'", TRUE, {"sale", "purchase"}) >>

insertEmployeeSchema ==
  << F("employeeId", "nonempty", "Employee ID is required", FALSE, {}),
     F("firstName", "nonempty", "First name is required", FALSE, {}),
     F("lastName", "nonempty", "Last name is required", FALSE, {}),
     F("email", "email", "Invalid email address", FALSE, {}),
     F("position", "nonempty", "Position is required", FALSE, {}),
     F("department", "nonempty", "Department is required", FALSE, {}),
     F("salary", "positive", "Salary must be a positive number", TRUE, {}),
     F("hireDate", "dateString", "", FALSE, {}),
     F("status", "enum", "'active' | 'on_leave' | 'terminated'", TRUE,
       {"active", "on_leave", "terminated"}) >>

insertTransactionSchema ==
  << F("description", "nonempty", "Description is required", FALSE, {}),
     F("amount", "positive", "Amount must be a positive number", FALSE, {}),
     F("type", "enum", "'income' | 'expense' | 'transfer'", FALSE,
       {"income", "expense", "transfer"}),
     F("category", "nonempty", "Category is required", FALSE, {}),
     F("date", "dateString", "", FALSE, {}) >>

SchemaOf(c) ==
  CASE c = "products" -> insertProductSchema
    [] c = "orders" -> insertOrderSchema
    [] c = "employees" -> insertEmployeeSchema
    [] c = "transactions" -> insertTransactionSchema

\* stand-ins for zod's email and url patterns over the modelled strings
IsEmail(v) == v \in Emails

IsUrl(v) == v \in {"http://img/1.png"}

\* The messages of the issues zod reports for one field; a message is the
\* sequence of its pieces of text.  For an enum field f.msg is the list of
\* options as zod prints it, and the value received is echoed.
FieldIssues(f, body, partial) ==
  IF ~Has(body, f.name)
    THEN IF f.optional \/ partial THEN << >> ELSE << <<"Required">> >>
  ELSE LET x == body[f.name]
       IN IF f.kind \in {"positive", "intMin0"}
            THEN IF x.t # "number" THEN << <<"Expected number, received string">> >>
                 ELSE IF f.kind = "positive" /\ x.v <= 0 THEN << <<f.msg>> >>
                 ELSE IF f.kind = "intMin0" /\ x.v < 0 THEN << <<f.msg>> >>
                 ELSE << >>
          ELSE IF x.t # "string"
            THEN IF f.kind = "enum"
                   THEN << <<"Expected ", f.msg, ", received number">> >>
                   ELSE << <<"Expected string, received number">> >>
          ELSE IF f.kind = "nonempty" /\ x.v = "" THEN << <<f.msg>> >>
          ELSE IF f.kind = "enum" /\ x.v \notin f.values
            THEN << <<"Invalid enum value. Expected ", f.msg, ", received '", x.v, "'">> >>
          ELSE IF f.kind = "email" /\ ~IsEmail(x.v) THEN << <<f.msg>> >>
          ELSE IF f.kind = "url" /\ ~IsUrl(x.v) THEN << <<f.msg>> >>
          ELSE << >>

RECURSIVE ZodIssues(_, _, _)
\* schema.parse(body): every field is checked, the issues come in schema order
ZodIssues(schema, body, partial) ==
  IF schema = << >> THEN << >>
  ELSE FieldIssues(Head(schema), body, partial) \o ZodIssues(Tail(schema), body, partial)

RECURSIVE Join(_, _)
\* Array.prototype.join over texts
Join(msgs, sep) ==
  IF Len(msgs) = 0 THEN << >>
  ELSE IF Len(msgs) = 1 THEN Head(msgs)
  ELSE Head(msgs) \o <<sep>> \o Join(Tail(msgs), sep)

\* validate reporting the first issue only (error.errors[0].message)
validate_FirstIssue(schema, partial, body) ==
  LET issues == ZodIssues(schema, body, partial)
  IN IF issues = << >>
       THEN [ok |-> TRUE]
       ELSE [ok |-> FALSE,
             error |-> ApiError(<<"Validation Error: ">> \o Head(issues), 400)]

\* validate that lets every body of a PUT through (the partial schema misused)
validate_SkipsPartial(schema, partial, body) ==
  LET issues == ZodIssues(schema, body, partial)
  IN IF issues = << >> \/ partial
       THEN [ok |-> TRUE]
       ELSE [ok |-> FALSE,
             error |-> ApiError(<<"Validation Error: ">> \o Join(issues, ", "), 400)]

\* validate(schema): passes the request on, or fails it with one ApiError
validate(schema, partial, body) ==
  LET issues == ZodIssues(schema, body, partial)
  IN IF issues = << >>
       THEN [ok |-> TRUE]
       ELSE [ok |-> FALSE,
             error |-> ApiError(<<"Validation Error: ">> \o Join(issues, ", "), 400)]

(***************************************************************************)
(* Storage (mongoose models behind DatabaseStorage)                        *)
(***************************************************************************)
ModelFields(c) ==
  CASE c = "products" ->
         {"name", "description", "sku", "category", "price", "stock", "status"}
    [] c = "orders" ->
         {"orderNumber", "customerName", "customerEmail", "totalAmount", "status", "type"}
    [] c = "employees" ->
         {"employeeId", "firstName", "lastName", "email", "position", "department",
          "salary", "hireDate", "status"}
    [] c = "transactions" ->
         {"description", "amount", "type", "category", "date"}

ModelDefaults(c) ==
  CASE c = "products" -> [stock |-> 0, status |-> "active"]
    [] c = "orders" -> [status |-> "pending", type |-> "sale"]
    [] c = "employees" -> [status |-> "active"]
    [] c = "transactions" -> << >>

\* the employees' email index left out
UniqueKeys_NoEmailIndex(c) ==
  CASE c = "products" -> {"sku"}
    [] c = "orders" -> {"orderNumber"}
    [] c = "employees" -> {"employeeId"}
    [] c = "transactions" -> {}

UniqueKeys(c) ==
  CASE c = "products" -> {"sku"}
    [] c = "orders" -> {"orderNumber"}
    [] c = "employees" -> {"employeeId", "email"}
    [] c = "transactions" -> {}

DateFields == {"hireDate", "date"}

\* new Date(str): day number of the modelled date strings, 0 is Invalid Date
DateOf(str) ==
  CASE str = "2024-01-01" -> 1
    [] str = "2024-01-02" -> 2
    [] OTHER -> 0

\* mongoose casting of one body value to its schema type
CastValue(f, x) == IF f \in DateFields THEN DateOf(x.v) ELSE x.v

\* the body's paths that the mongoose schema knows (strict mode drops the rest)
Picked(c, body) ==
  [f \in (DOMAIN body) \cap ModelFields(c) |-> CastValue(f, body[f])]

CastFails(doc) == \E f \in (DOMAIN doc) \cap DateFields : doc[f] = 0

\* the text of the body that could not be cast
Uncastable(body) ==
  body[CHOOSE f \in (DOMAIN body) \cap DateFields : DateOf(body[f].v) = 0].v

ViolatesUnique(c, coll, doc) ==
  \E d \in coll, k \in UniqueKeys(c) :
     /\ d._id # doc._id
     /\ k \in DOMAIN d
     /\ k \in DOMAIN doc
     /\ d[k] = doc[k]

\* new Model(body).save()
create(c, coll, body, id, t) ==
  LET doc == Picked(c, body) @@ ModelDefaults(c)
               @@ [_id |-> id, createdAt |-> t]
  IN IF CastFails(doc)
       THEN [ok |-> FALSE, coll |-> coll,
             error |-> LibError("ValidationError",
                                <<"Cast to date failed for value \"", Uncastable(body), "\"">>)]
     ELSE IF ViolatesUnique(c, coll, doc)
       THEN [ok |-> FALSE, coll |-> coll, error |-> DuplicateKeyError]
     ELSE [ok |-> TRUE, coll |-> coll \cup {doc}, value |-> doc]

\* mongoose CastError: err.value is the text that could not be cast
CastError(value) ==
  [name |-> "CastError", message |-> <<"Cast failed for value ", value>>,
   statusCode |-> 0, code |-> 0, value |-> value]

\* the path segment :id, as text; a stored _id n is written ToString(n)
IsObjectId(id) == id \in {ToString(n) : n \in 1..(MaxDocs + 1)}

Found(coll, id) == {d \in coll : ToString(d._id) = id}

NotFound(what) == ApiError(<<what>>, 404)

Singular(c) ==
  CASE c = "products" -> "Product"
    [] c = "orders" -> "Order"
    [] c = "employees" -> "Employee"
    [] c = "transactions" -> "Transaction"

\* Model.findById(id)
getById(c, coll, id) ==
  IF ~IsObjectId(id) THEN [ok |-> FALSE, coll |-> coll, error |-> CastError(id)]
  ELSE IF Found(coll, id) = {}
    THEN [ok |-> FALSE, coll |-> coll, error |-> NotFound(Singular(c) \o " not found")]
  ELSE [ok |-> TRUE, coll |-> coll, value |-> CHOOSE d \in Found(coll, id) : TRUE]

\* Model.findByIdAndUpdate(id, body, {new: true}): $set of the known paths
update(c, coll, id, body) ==
  IF ~IsObjectId(id) THEN [ok |-> FALSE, coll |-> coll, error |-> CastError(id)]
  ELSE IF CastFails(Picked(c, body))
    THEN [ok |-> FALSE, coll |-> coll,
          error |-> CastError(Uncastable(body))]
  ELSE IF Found(coll, id) = {}
    THEN [ok |-> FALSE, coll |-> coll,
          error |-> NotFound(Singular(c) \o " not found for update")]
  ELSE LET old == CHOOSE d \in Found(coll, id) : TRUE
           new == Picked(c, body) @@ old
       IN IF ViolatesUnique(c, coll, new)
            THEN [ok |-> FALSE, coll |-> coll, error |-> DuplicateKeyError]
            ELSE [ok |-> TRUE, coll |-> (coll \ {old}) \cup {new}, value |-> new]

\* deleteProduct that does not look at what findByIdAndDelete returned
delete_Unchecked(c, coll, id) ==
  IF ~IsObjectId(id) THEN [ok |-> FALSE, coll |-> coll, error |-> CastError(id)]
  ELSE [ok |-> TRUE, coll |-> coll \ Found(coll, id)]

\* Model.findByIdAndDelete(id)
delete(c, coll, id) ==
  IF ~IsObjectId(id) THEN [ok |-> FALSE, coll |-> coll, error |-> CastError(id)]
  ELSE IF Found(coll, id) = {}
    THEN [ok |-> FALSE, coll |-> coll,
          error |-> NotFound(Singular(c) \o " not found for deletion")]
  ELSE [ok |-> TRUE, coll |-> coll \ Found(coll, id)]

\* the sort key that is always the creation time
SortKey_CreatedAt(c) == "createdAt"

SortKey(c) == IF c = "transactions" THEN "date" ELSE "createdAt"

\* find().sort().limit(1): a newest document only
SortDesc_Limit1(coll, key) ==
  IF coll = {} THEN {<< >>}
  ELSE {<<d>> : d \in {x \in coll : \A e \in coll : x[key] >= e[key]}}

RECURSIVE SortDesc(_, _)
\* find().sort({key: -1}): the results MongoDB may return, documents of
\* equal key in any order
SortDesc(coll, key) ==
  IF coll = {} THEN {<< >>}
  ELSE UNION {{<<d>> \o rest : rest \in SortDesc(coll \ {d}, key)} :
                d \in {x \in coll : \A e \in coll : x[key] >= e[key]}}

RECURSIVE SumAmount(_)
SumAmount(coll) ==
  IF coll = {} THEN 0
  ELSE LET d == CHOOSE x \in coll : TRUE IN d.amount + SumAmount(coll \ {d})

\* the KPIs with the revenue summed over the transactions of every type
getDashboardKPIs_AllTypes(st) ==
  [totalRevenue |-> SumAmount(st["transactions"]),
   activeOrders |-> Cardinality({o \in st["orders"] : o.status = "pending"}),
   inventoryItems |-> Cardinality(st["products"]),
   employees |-> Cardinality(st["employees"])]

\* Transaction.find({type: "income"}) reduced by sum + Number(t.amount);
\* Order.countDocuments({status: "pending"}); the two plain counts
getDashboardKPIs(st) ==
  [totalRevenue |-> SumAmount({x \in st["transactions"] : x.type = "income"}),
   activeOrders |-> Cardinality({o \in st["orders"] : o.status = "pending"}),
   inventoryItems |-> Cardinality(st["products"]),
   employees |-> Cardinality(st["employees"])]

(***************************************************************************)
(* Routes registered behind the auth gate                                  *)
(***************************************************************************)
R(name, op, c, validated, partial) ==
  [name |-> name, op |-> op, collection |-> c, validated |-> validated, partial |-> partial]

Routes ==
  { R("POST /api/auth/logout", "logout", "none", FALSE, FALSE),
    R("GET /api/dashboard/kpis", "kpis", "none", FALSE, FALSE),
    R("GET /api/products", "list", "products", FALSE, FALSE),
    R("GET /api/products/:id", "get", "products", FALSE, FALSE),
    R("POST /api/products", "create", "products", TRUE, FALSE),
    R("PUT /api/products/:id", "update", "products", TRUE, TRUE),
    R("DELETE /api/products/:id", "delete", "products", FALSE, FALSE),
    R("GET /api/orders", "list", "orders", FALSE, FALSE),
    R("POST /api/orders", "create", "orders", TRUE, FALSE),
    R("PUT /api/orders/:id", "update", "orders", TRUE, TRUE),
    R("GET /api/employees", "list", "employees", FALSE, FALSE),
    R("POST /api/employees", "create", "employees", TRUE, FALSE),
    R("PUT /api/employees/:id", "update", "employees", TRUE, TRUE),
    R("GET /api/transactions", "list", "transactions", FALSE, FALSE),
    R("POST /api/transactions", "create", "transactions", TRUE, FALSE) }

\* the route of the table that a request names
RouteOf(name) == CHOOSE r \in Routes : r.name = name

Routed(name) == \E r \in Routes : r.name = name

\* logoutUser ending a server-side session that takes the data with it
logoutUser_ClearsStore ==
  /\ res' = [status |-> 200, body |-> [message |-> <<"Logged out successfully">>]]
  /\ store' = [c \in Collections |-> {}]
  /\ UNCHANGED nextId

logoutUser ==
  /\ res' = [status |-> 200, body |-> [message |-> <<"Logged out successfully">>]]
  /\ UNCHANGED <<store, nextId>>

\* What the route handler does once the gates have let the request through
Handle(r, id, body) ==
  LET c == r.collection
      Reply(status, b) == /\ res' = [status |-> status, body |-> b]
                          /\ UNCHANGED <<store, nextId>>
      Error(e) == /\ res' = errorHandler(e)
                  /\ UNCHANGED <<store, nextId>>
  IN CASE r.op = "logout" -> logoutUser
       [] r.op = "kpis" -> Reply(200, getDashboardKPIs(store))
       [] r.op = "list" -> \E list \in SortDesc(store[c], SortKey(c)) : Reply(200, list)
       [] r.op = "get" ->
            LET g == getById(c, store[c], id)
            IN IF g.ok THEN Reply(200, g.value) ELSE Error(g.error)
       [] r.op = "create" ->
            LET g == create(c, store[c], body, nextId[c], now)
            IN IF g.ok
                 THEN /\ nextId[c] <= MaxDocs
                      /\ store' = [store EXCEPT ![c] = g.coll]
                      /\ nextId' = [nextId EXCEPT ![c] = @ + 1]
                      /\ res' = [status |-> 201, body |-> g.value]
                 ELSE Error(g.error)
       [] r.op = "update" ->
            LET g == update(c, store[c], id, body)
            IN IF g.ok
                 THEN /\ store' = [store EXCEPT ![c] = g.coll]
                      /\ res' = [status |-> 200, body |-> g.value]
                      /\ UNCHANGED nextId
                 ELSE Error(g.error)
       [] r.op = "delete" ->
            LET g == delete(c, store[c], id)
            IN IF g.ok
                 THEN /\ store' = [store EXCEPT ![c] = g.coll]
                      /\ res' = [status |-> 204, body |-> << >>]
                      /\ UNCHANGED nextId
                 ELSE Error(g.error)

\* One request to a protected route: protect, validate (POST and PUT), handler
Exchange(r, authorization, id, body) ==
  LET gate == protect(authorization, now)
      checked == IF r.validated THEN validate(SchemaOf(r.collection), r.partial, body)
                                ELSE [ok |-> TRUE]
      Reject(e) == /\ res' = errorHandler(e)
                   /\ handled' = "none"
                   /\ UNCHANGED <<store, nextId>>
  IN /\ req' = [route |-> r.name, authorization |-> authorization, id |-> id,
                body |-> body]
     /\ IF ~gate.ok
          THEN reqUser' = "" /\ Reject(gate.error)
          ELSE /\ reqUser' = gate.user
               /\ IF ~checked.ok
                    THEN Reject(checked.error)
                    ELSE handled' = r.name /\ Handle(r, id, body)
     /\ UNCHANGED <<users, issued, now, registered, inflight>>

Request(r, authorization, id, body) ==
  /\ Exchange(r, authorization, id, body)
  /\ UNCHANGED <<loggedOut, browser>>

\* The same request, with the history of logouts kept
TrackedRequest(r, authorization, id, body) ==
  /\ Exchange(r, authorization, id, body)
  /\ loggedOut' = IF r.op = "logout" /\ handled' = r.name
                    THEN loggedOut \cup {authorization[2]}
                    ELSE loggedOut
  /\ UNCHANGED browser

\* The client drops a token it holds (localStorage.removeItem('token'));
\* the exchange that was answered is over.
Discard(token) ==
  /\ token \in issued
  /\ issued' = issued \ {token}
  /\ req' = NoRequest
  /\ res' = NoResponse
  /\ handled' = "none"
  /\ reqUser' = ""
  /\ loggedOut' = loggedOut \ {token}
  /\ UNCHANGED <<users, store, nextId, now, registered, inflight, browser>>

(***************************************************************************)
(* What clients send                                                       *)
(***************************************************************************)
\* one byte of the signature segment changed
TamperSignature(token) == <<token[1], token[2], [token[3] EXCEPT !.key = "tampered"]>>

\* the expiry pushed back, the signature kept
TamperPayload(token) ==
  <<token[1], [token[2] EXCEPT !.exp = @ + JWT_EXPIRES_IN], token[3]>>

\* a token the sender signed with a key of their own
Forged(uid, t) == jwtSign([userId |-> ToString(uid)], "guess", JWT_EXPIRES_IN, t)

\* a string that is no three-segment JWT
Malformed == <<JwtHeader>>

PresentedTokens ==
  issued \cup {TamperSignature(t) : t \in issued}
         \cup {TamperPayload(t) : t \in issued}
         \cup {Forged(1, now), Malformed}

Headers ==
  {<< >>, <<"Bearer">>}
    \cup {<<"Bearer", t>> : t \in PresentedTokens}
    \cup {<<"Basic", t>> : t \in issued}

\* One body per collection that every schema accepts
ValidBody(c) ==
  CASE c = "products" ->
         [name |-> Str("Widget"), sku |-> Str("A"), category |-> Str("tools"),
          price |-> Num(10), stock |-> Num(1)]
    [] c = "orders" ->
         [orderNumber |-> Str("O-1"), customerName |-> Str("Ann"), totalAmount |-> Num(20)]
    [] c = "employees" ->
         [employeeId |-> Str("E-1"), firstName |-> Str("Ann"), lastName |-> Str("Lee"),
          email |-> Str("a@x.com"), position |-> Str("dev"), department |-> Str("it"),
          hireDate |-> Str("2024-01-01")]
    [] c = "transactions" ->
         [description |-> Str("sale"), amount |-> Num(100), type |-> Str("income"),
          category |-> Str("ops"), date |-> Str("2024-01-02")]

ValidOnly == [c \in Collections |-> {ValidBody(c)}]

\* the bodies sent to a route, out of a choice of bodies per collection
RequestBodies(r, bodies) == IF r.validated THEN bodies[r.collection] ELSE {<< >>}

\* the :id segments a client sends: a stored id, and a text that is no ObjectId
NoObjectId == "abc"

RequestIds(r) ==
  IF r.op \in {"get", "update", "delete"}
    THEN {NoObjectId} \cup {ToString(n) : n \in 1..MaxDocs}
    ELSE {""}

AuthRoutes == {r \in Routes : r.op \in {"logout", "kpis"}}

Protected(routes, headers, bodies) ==
  \E r \in routes, h \in headers :
    \E id \in RequestIds(r), b \in RequestBodies(r, bodies) : Request(r, h, id, b)

(***************************************************************************)
(* Requests that no route of registerRoutes matches.  index.ts mounts no   *)
(* catch-all, and errorHandler only receives errors, so Express's default  *)
(* handler (finalhandler) answers them: 404, an HTML page.                 *)
(***************************************************************************)
finalhandler(name) == [status |-> 404, body |-> [html |-> <<"Cannot ", name>>]]

\* the verbs of a REST collection, named like the routes of the table
Endpoint(op, c) ==
  LET path == "/api/" \o c
      name == CASE op = "list" -> "GET " \o path
                [] op = "get" -> "GET " \o path \o "/:id"
                [] op = "create" -> "POST " \o path
                [] op = "update" -> "PUT " \o path \o "/:id"
                [] op = "delete" -> "DELETE " \o path \o "/:id"
  IN R(name, op, c, op \in {"create", "update"}, op = "update")

VerbSet ==
  {Endpoint(op, c) : op \in {"list", "get", "create", "update", "delete"},
                     c \in Collections}

\* the verbs that registerRoutes does not mount
Unmounted == {e \in VerbSet : ~Routed(e.name)}

\* One request that matches no route: express.json, then finalhandler
Unrouted(e, authorization, id, body) ==
  /\ ~Routed(e.name)
  /\ req' = [route |-> e.name, authorization |-> authorization, id |-> id, body |-> body]
  /\ res' = finalhandler(e.name)
  /\ handled' = "none"
  /\ reqUser' = ""
  /\ UNCHANGED <<users, store, nextId, now, issued, registered, loggedOut, inflight,
                 browser>>

(***************************************************************************)
(* DELETE /api/products/:id taken in the steps its awaits divide it into:  *)
(* protect, then findByIdAndDelete on the database, then the response.     *)
(* The steps of the requests of different connections interleave.          *)
(***************************************************************************)
DELETE_PRODUCT == "DELETE /api/products/:id"

\* a step of a connection is no exchange of the one-request-at-a-time client
Background ==
  /\ req' = NoRequest
  /\ res' = NoResponse
  /\ handled' = "none"
  /\ reqUser' = ""
  /\ UNCHANGED <<users, nextId, now, issued, registered, loggedOut, browser>>

\* the request arrives and passes, or fails, protect
DeleteArrive(k, authorization, id) ==
  LET gate == protect(authorization, now)
      arrived == [pc |-> "gated", route |-> DELETE_PRODUCT, id |-> id, body |-> << >>,
                  stored |-> Found(store["products"], id) # {}, res |-> NoResponse]
  IN /\ inflight[k].pc = "idle"
     /\ inflight' = [inflight EXCEPT ![k] =
                       IF gate.ok THEN arrived
                       ELSE [arrived EXCEPT !.pc = "done", !.res = errorHandler(gate.error)]]
     /\ UNCHANGED store
     /\ Background

\* await storage.deleteProduct(id): one operation of the database
DeleteQuery(k) ==
  LET g == delete("products", store["products"], inflight[k].id)
  IN /\ inflight[k].pc = "gated"
     /\ store' = [store EXCEPT !["products"] = g.coll]
     /\ inflight' = [inflight EXCEPT ![k].pc = "deleted",
                                      ![k].res = IF g.ok THEN [status |-> 204, body |-> << >>]
                                                 ELSE errorHandler(g.error)]
     /\ Background

\* res.status(204).send(), or next(error)
DeleteReply(k) ==
  /\ inflight[k].pc = "deleted"
  /\ inflight' = [inflight EXCEPT ![k].pc = "done"]
  /\ UNCHANGED store
  /\ Background

(***************************************************************************)
(* Spec: accounts and tokens.  Every registration and login input, every   *)
(* kind of Authorization header, the two protected routes without a        *)
(* payload.                                                                *)
(***************************************************************************)
Next ==
  \/ \E b \in RegisterBodies, salt \in Salts : Register(b, salt)
  \/ \E b \in LoginBodies : Login(b)
  \/ Protected(AuthRoutes, Headers, ValidOnly)
  \/ \E t \in issued : Discard(t)
  \/ Tick

Spec == Init /\ [][Next]_vars

(***************************************************************************)
(* SpecApi: every protected route and every kind of Authorization header,   *)
(* one account.                                                            *)
(***************************************************************************)
\* the one registration of SpecApi; its body asks for a role
ApiAccount ==
  [email |-> "a@x.com", password |-> "pw1", firstName |-> "Ann", lastName |-> "Lee",
   role |-> "admin"]

ApiHeaders ==
  {<< >>, <<"Bearer">>, <<"Bearer", Malformed>>}
    \cup {<<"Bearer", t>> : t \in issued \cup {TamperSignature(x) : x \in issued}}
    \cup {<<"Basic", t>> : t \in issued}

\* the clients of SpecApi fill one collection in a run
OneCollection(r) ==
  r.op = "create" => \A c \in Collections \ {r.collection} : store[c] = {}

\* ... or keep one document at a time
OneDocument(r) == r.op = "create" => \A c \in Collections : store[c] = {}

TickApi == now + JWT_EXPIRES_IN <= MaxClock /\ Advance(now + JWT_EXPIRES_IN)

NextApi ==
  \/ Register(ApiAccount, "s1")
  \/ Login([email |-> "a@x.com", password |-> "pw1"])
  \/ Protected({r \in Routes : OneDocument(r)}, ApiHeaders, ValidOnly)
  \/ \E t \in issued : Discard(t)
  \/ TickApi

SpecApi == Init /\ [][NextApi]_vars

(***************************************************************************)
(* SpecLogout: one account; the holder of a token logs out and goes on      *)
(* using the token on every protected route.                               *)
(***************************************************************************)
\* the token kept, or (on logout) no header at all
LogoutHeaders(r) ==
  {<<"Bearer", t>> : t \in issued} \cup (IF r.op = "logout" THEN {<< >>} ELSE {})

NextLogout ==
  \/ Register(ApiAccount, "s1")
  \/ Login([email |-> "a@x.com", password |-> "pw1"])
  \/ \E r \in {x \in Routes : OneDocument(x)} :
       \E h \in LogoutHeaders(r), id \in RequestIds(r), b \in RequestBodies(r, ValidOnly) :
          TrackedRequest(r, h, id, b)
  \/ \E t \in issued : Discard(t)
  \/ \E t \in {JWT_EXPIRES_IN - 1, JWT_EXPIRES_IN} : Advance(t)

SpecLogout == Init /\ [][NextLogout]_vars

(***************************************************************************)
(* SpecMessages: one account; bodies that violate the schemas, ids that     *)
(* are no ObjectId, wrong passwords, headers that fail the gate: every     *)
(* kind of error message the API sends.                                    *)
(***************************************************************************)
PriceMinus5 == [ValidBody("products") EXCEPT !.price = Num(-5)]

\* three violations at once
ThreeWrong ==
  [ValidBody("products") EXCEPT !.name = Str(""), !.price = Num(0), !.stock = Num(-1)]

\* no sku, and the price sent as text
NoSku ==
  [name |-> Str("Widget"), category |-> Str("tools"), price |-> Str("10"), stock |-> Num(1)]

\* a status that is none of the options
EchoedStatus(text) == ValidBody("products") @@ [status |-> Str(text)]

OnlyPrice(n) == [price |-> Num(n)]

NoAmount == [ValidBody("orders") EXCEPT !.totalAmount = Num(0)]

BadEmail == [ValidBody("employees") EXCEPT !.email = Str("nobody")]

Refund == [ValidBody("transactions") EXCEPT !.type = Str("refund"), !.amount = Num(-1)]

MessageBodies ==
  [c \in Collections |->
     {ValidBody(c)} \cup
     CASE c = "products" ->
            {PriceMinus5, ThreeWrong, NoSku, EchoedStatus("gone"),
             EchoedStatus("Not authorized, token failed"), OnlyPrice(20), OnlyPrice(-5)}
       [] c = "orders" -> {NoAmount}
       [] c = "employees" -> {BadEmail}
       [] c = "transactions" -> {Refund}]

MessageRoutes ==
  {r \in Routes : r.validated \/ r.op = "get" \/ r.op = "logout"}

MessageHeaders ==
  {<< >>} \cup {<<"Bearer", t>> : t \in issued \cup {TamperSignature(x) : x \in issued}}

MessageIds(r) ==
  IF r.op \in {"get", "update", "delete"}
    THEN RequestIds(r) \cup {"Not authorized, no token"}
    ELSE RequestIds(r)

NextMessages ==
  \/ Register(ApiAccount, "s1")
  \/ \E p \in Passwords : Login([email |-> "a@x.com", password |-> p])
  \/ \E r \in {x \in MessageRoutes : OneCollection(x)}, h \in MessageHeaders :
       \E id \in MessageIds(r), b \in RequestBodies(r, MessageBodies) :
          Request(r, h, id, b)
  \/ \E t \in issued : Discard(t)
  \/ TickApi

SpecMessages == Init /\ [][NextMessages]_vars

(***************************************************************************)
(* SpecCrud: one account and its token; on every collection two bodies     *)
(* the schema accepts, bodies with amounts it refuses, and the patches a   *)
(* PUT sends; every id, stored or not.                                     *)
(***************************************************************************)
\* The one registration of SpecCrud: an email that is no email address
Unchecked ==
  [email |-> "nobody", password |-> "pw1", firstName |-> "Ann", lastName |-> "Lee"]

SecondBody(c) ==
  CASE c = "products" -> [ValidBody(c) EXCEPT !.sku = Str("B"), !.stock = Num(0)]
    [] c = "orders" -> [ValidBody(c) EXCEPT !.orderNumber = Str("O-2")]
    [] c = "employees" ->
         [ValidBody(c) EXCEPT !.employeeId = Str("E-2"), !.email = Str("b@x.com")]
           @@ [salary |-> Num(5)]
    [] c = "transactions" -> [ValidBody(c) EXCEPT !.amount = Num(1)]

\* bodies and patches with an amount the schema refuses
RefusedBodies(c) ==
  CASE c = "products" ->
         {PriceMinus5, OnlyPrice(-5), [price |-> Num(0)], [stock |-> Num(-1)]}
    [] c = "orders" -> {NoAmount, [totalAmount |-> Num(-1)]}
    [] c = "employees" -> {ValidBody(c) @@ [salary |-> Num(-1)], [salary |-> Num(0)]}
    [] c = "transactions" -> {Refund}

\* patches the partial schema accepts
Patches(c) ==
  CASE c = "products" ->
         {OnlyPrice(20), [sku |-> Str("B")], [imageUrl |-> Str("http://img/1.png")]}
    [] c = "orders" -> {[orderNumber |-> Str("O-2"), totalAmount |-> Num(30)]}
    [] c = "employees" -> {[email |-> Str("b@x.com")], [employeeId |-> Str("E-2")]}
    [] c = "transactions" -> {}

CrudBodies ==
  [c \in Collections |->
     {ValidBody(c), SecondBody(c)} \cup RefusedBodies(c) \cup Patches(c)]

CrudHeaders == {<<"Bearer", t>> : t \in issued}

NextCrud ==
  \/ Register(Unchecked, "s1")
  \/ Protected({r \in Routes : OneCollection(r) /\ r.collection # "none"},
               CrudHeaders, CrudBodies)

SpecCrud == Init /\ [][NextCrud]_vars

(***************************************************************************)
(* SpecRaces: products are created, and every connection sends one DELETE  *)
(* of a product, with or without a token; the steps of the deletes         *)
(* interleave with each other and with the creates.                        *)
(***************************************************************************)
RaceBodies == [c \in Collections |-> {ValidBody(c), SecondBody(c)}]

RaceHeaders == {<< >>} \cup CrudHeaders

NextRaces ==
  \/ Register(Unchecked, "s1")
  \/ Protected({r \in Routes : r.name = "POST /api/products"}, CrudHeaders, RaceBodies)
  \/ \E k \in Connections, h \in RaceHeaders, id \in RequestIds(RouteOf(DELETE_PRODUCT)) :
       DeleteArrive(k, h, id)
  \/ \E k \in Connections : DeleteQuery(k)
  \/ \E k \in Connections : DeleteReply(k)

SpecRaces == Init /\ [][NextRaces]_vars

(***************************************************************************)
(* POST /api/auth/register taken in the steps its awaits divide it into:   *)
(* User.findOne, then hashPassword and newUser.save() with the response    *)
(* that follows the save without another await.  hashPassword touches      *)
(* nothing shared, so it is taken together with the save.                  *)
(***************************************************************************)
REGISTER == "POST /api/auth/register"

\* a step of a connection that may write users and tokens
Connected ==
  /\ req' = NoRequest
  /\ res' = NoResponse
  /\ handled' = "none"
  /\ reqUser' = ""
  /\ UNCHANGED <<store, nextId, now, loggedOut, browser>>

\* the request arrives: await User.findOne({ email })
RegisterLookup(k, body) ==
  LET existingUser == {u \in users : u.email = body.email}
      arrived == [pc |-> "looked", route |-> REGISTER, id |-> "", body |-> body,
                  stored |-> existingUser # {}, res |-> NoResponse]
  IN /\ inflight[k].pc = "idle"
     /\ inflight' = [inflight EXCEPT ![k] =
                       IF existingUser = {} THEN arrived
                       ELSE [arrived EXCEPT
                               !.pc = "done",
                               !.res = errorHandler(ApiError(<<"User already exists">>, 400))]]
     /\ UNCHANGED <<users, issued, registered>>
     /\ Connected

\* await hashPassword(password); await newUser.save(); generateToken;
\* res.status(201).json(...), or next(error)
RegisterSave(k) ==
  LET body == inflight[k].body
      newUser == NewUserDoc(body, hashPassword(body.password, "s1"), NewUserId, now)
      saved == UserSave(users, newUser)
      token == generateToken(newUser._id, now)
  IN /\ inflight[k].pc = "looked"
     /\ IF ~saved.ok
          THEN /\ inflight' = [inflight EXCEPT ![k].pc = "done",
                                               ![k].res = errorHandler(saved.error)]
               /\ UNCHANGED <<users, issued, registered>>
          ELSE /\ users' = saved.coll
               /\ issued' = issued \cup {token}
               /\ registered' = registered \cup {<<body.email, body.password>>}
               /\ inflight' = [inflight EXCEPT
                                 ![k].pc = "done",
                                 ![k].res = [status |-> 201, body |-> AuthBody(newUser, token)]]
     /\ Connected

(***************************************************************************)
(* SpecRegisters: the connections register the two emails with either      *)
(* password, one request each, their steps interleaved.                    *)
(***************************************************************************)
RaceAccounts ==
  {[email |-> e, password |-> p, firstName |-> "Ann", lastName |-> "Lee"] :
     e \in Emails, p \in Passwords}

NextRegisters ==
  \/ \E k \in Connections, b \in RaceAccounts : RegisterLookup(k, b)
  \/ \E k \in Connections : RegisterSave(k)

SpecRegisters == Init /\ [][NextRegisters]_vars

(***************************************************************************)
(* SpecRouting: every verb of every collection, mounted or not, with and   *)
(* without an authentic token, with bodies the schemas accept and refuse,  *)
(* stored, absent and malformed ids; registrations and logins that         *)
(* succeed and fail.                                                       *)
(***************************************************************************)
NoPassword == [email |-> "a@x.com", firstName |-> "Ann", lastName |-> "Lee"]

RoutingAccounts == {ApiAccount, NoPassword}

RoutingLogins ==
  {[email |-> "a@x.com", password |-> "pw1"], [email |-> "a@x.com", password |-> "pw2"],
   [email |-> "b@x.com", password |-> "pw1"], [email |-> "a@x.com"]}

\* a hire date that new Date() cannot read
Soon == [hireDate |-> Str("soon")]

RoutingBodies ==
  [c \in Collections |->
     {ValidBody(c)}
       \cup (CASE c = "products" -> {PriceMinus5}
              [] c = "orders" -> {NoAmount}
              [] c = "employees" -> {BadEmail, Soon, Soon @@ ValidBody(c)}
              [] c = "transactions" -> {Refund})]

RoutingHeaders ==
  {<< >>} \cup {<<"Bearer", t>> : t \in issued \cup {TamperSignature(x) : x \in issued}}

NextRouting ==
  \/ \E b \in RoutingAccounts : Register(b, "s1")
  \/ \E b \in RoutingLogins : Login(b)
  \/ Protected({r \in Routes : OneDocument(r)}, RoutingHeaders, RoutingBodies)
  \/ \E e \in Unmounted, h \in RaceHeaders :
       \E id \in RequestIds(e), b \in RequestBodies(e, RoutingBodies) : Unrouted(e, h, id, b)
  \/ TickApi

SpecRouting == Init /\ [][NextRouting]_vars

(***************************************************************************)
(* SpecKpi: the four collections filled side by side, with transactions    *)
(* of every type and orders pending and completed, and the dashboard read  *)
(* in between.                                                             *)
(***************************************************************************)
Expense40 == [ValidBody("transactions") EXCEPT !.type = Str("expense"), !.amount = Num(40)]

Transfer7 == [ValidBody("transactions") EXCEPT !.type = Str("transfer"), !.amount = Num(7)]

Completed == SecondBody("orders") @@ [status |-> Str("completed")]

KpiBodies ==
  [c \in Collections |->
     CASE c = "products" -> {ValidBody(c), SecondBody(c)}
       [] c = "orders" -> {ValidBody(c), Completed}
       [] c = "employees" -> {ValidBody(c), SecondBody(c)}
       [] c = "transactions" -> {ValidBody(c), Expense40, Transfer7}]

NextKpi ==
  \/ Register(Unchecked, "s1")
  \/ Protected({r \in Routes : r.op \in {"create", "kpis"}}, CrudHeaders, KpiBodies)

SpecKpi == Init /\ [][NextKpi]_vars

(***************************************************************************)
(* SpecLists: documents created at different instants, transactions with   *)
(* dates later and earlier than those already stored, and the lists read   *)
(* in between.                                                             *)
(***************************************************************************)
\* a transaction dated the day before that of ValidBody
DayBefore == [SecondBody("transactions") EXCEPT !.date = Str("2024-01-01")]

ListBodies ==
  [c \in Collections |->
     IF c = "transactions" THEN {ValidBody(c), SecondBody(c), DayBefore}
                           ELSE {ValidBody(c), SecondBody(c)}]

NextLists ==
  \/ Register(Unchecked, "s1")
  \/ Protected({r \in Routes : r.op \in {"create", "list"} /\ OneCollection(r)},
               CrudHeaders, ListBodies)
  \/ now = 0 /\ Advance(JWT_EXPIRES_IN - 1)

SpecLists == Init /\ [][NextLists]_vars

(***************************************************************************)
(* SpecRoles: two accounts whose roles an administrator of the database    *)
(* sets (registerUser stores 'staff' only; here the first account is made  *)
(* admin or manager), each holding the token it was given, on every        *)
(* protected route.                                                        *)
(***************************************************************************)
Roles == {"admin", "manager", "staff"}

RoleAccounts ==
  {[email |-> e, password |-> "pw1", firstName |-> "Ann", lastName |-> "Lee"] : e \in Emails}

\* the role of a stored user is set in the database, not through the API
AssignRole(u, role) ==
  /\ u \in users
  /\ u.role = "staff"
  /\ role # "staff"
  /\ users' = (users \ {u}) \cup {[u EXCEPT !.role = role]}
  /\ req' = NoRequest
  /\ res' = NoResponse
  /\ handled' = "none"
  /\ reqUser' = ""
  /\ UNCHANGED <<store, nextId, now, issued, registered, loggedOut, inflight, browser>>

\* the token each stored user was given when registering
CallerTokens == {generateToken(u._id, u.createdAt) : u \in users}

RoleHeaders == {<<"Bearer", t>> : t \in CallerTokens}

NextRoles ==
  \/ \E b \in RoleAccounts : Register(b, "s1")
  \/ \E t \in issued : Discard(t)
  \/ \E u \in {x \in users : x._id = 1}, role \in Roles : AssignRole(u, role)
  \/ Protected({r \in Routes : OneDocument(r)}, RoleHeaders, ValidOnly)

SpecRoles == Init /\ [][NextRoles]_vars

(***************************************************************************)
(* The client's test for a failed authorization (lib/authUtils)            *)
(***************************************************************************)
\* String.prototype.includes, over a text given as its pieces: the pieces of
\* the messages here are either fixed texts of the server, none of which
\* contains a needle without being one, or texts taken from the request
Includes(message, needle) == \E i \in 1..Len(message) : message[i] = needle

isUnauthorizedError(message) ==
  \/ Includes(message, "Not authorized, no token")
  \/ Includes(message, "Not authorized, token failed")
  \/ Includes(message, "Not authorized, token expired")

(***************************************************************************)
(* The client: the React application in one browser tab.                   *)
(*   - browser.token, browser.user: the 'token' and 'user' entries of      *)
(*     localStorage (<< >> and "" when absent);                            *)
(*   - browser.path: the location wouter reads and sets;                   *)
(*   - browser.auth[c]: the state of the useAuth() call of component c.    *)
(*     The user state of the hook is set together with isAuthenticated     *)
(*     everywhere, so it is not kept apart;                                *)
(*   - browser.document: "app" while the application is loaded, "other"    *)
(*     while the tab shows a document that is not the application;         *)
(*   - browser.rejected: the stored token with which a request of a form   *)
(*     was last refused (kept for the properties only);                    *)
(*   - browser.errors: the fields of the submitted form that carry an      *)
(*     error set by the form's onError.                                    *)
(* A handler of the client is one step, its request to the server          *)
(* included; effects run as steps of their own after the render.           *)
(***************************************************************************)
\* App.tsx: the routes inside {isAuthenticated ? ... : null} that are modelled
ProtectedPaths == {"/", "/inventory", "/sales", "/hr", "/finance"}

ClientPaths == ProtectedPaths \cup {"/login"}

\* a Switch that leaves the protected routes in for everyone
Page_Unguarded(b) ==
  IF b.document # "app" THEN "none"
  ELSE IF b.auth["Router"].isLoading THEN "Loading"
  ELSE IF b.path = "/login" THEN "Landing"
  ELSE IF b.path = "/" THEN "Dashboard"
  ELSE IF b.path = "/inventory" THEN "Inventory"
  ELSE IF b.path = "/sales" THEN "Sales"
  ELSE IF b.path = "/hr" THEN "HR"
  ELSE IF b.path = "/finance" THEN "Finance"
  ELSE "NotFound"

\* What the Switch of the Router shows
Page(b) ==
  IF b.document # "app" THEN "none"
  ELSE IF b.auth["Router"].isLoading THEN "Loading"
  ELSE IF b.path = "/login" THEN "Landing"
  ELSE IF b.auth["Router"].isAuthenticated /\ b.path = "/" THEN "Dashboard"
  ELSE IF b.auth["Router"].isAuthenticated /\ b.path = "/inventory" THEN "Inventory"
  ELSE IF b.auth["Router"].isAuthenticated /\ b.path = "/sales" THEN "Sales"
  ELSE IF b.auth["Router"].isAuthenticated /\ b.path = "/hr" THEN "HR"
  ELSE IF b.auth["Router"].isAuthenticated /\ b.path = "/finance" THEN "Finance"
  ELSE "NotFound"

\* Dashboard and Inventory show Sidebar and Header once their own isLoading is false
InTree(b, c) ==
  CASE c = "Router" -> b.document = "app"
    [] c \in {"Landing", "Dashboard", "Inventory"} -> Page(b) = c
    [] c \in {"Header", "Sidebar"} ->
         /\ Page(b) \in {"Dashboard", "Inventory"}
         /\ b.auth[Page(b)].mounted
         /\ ~b.auth[Page(b)].isLoading

\* React renders: a component that enters the tree starts with a state of its
\* own, one that leaves the tree loses its state
Render(b) ==
  [b EXCEPT !.auth = [c \in Components |->
                        IF ~InTree(b, c) THEN NotMounted
                        ELSE IF b.auth[c].mounted THEN b.auth[c]
                        ELSE Mounting]]

\* The tab loads the document of path p: every component state is lost,
\* localStorage is kept
Load(b, p, document) ==
  Render([b EXCEPT !.document = document, !.path = p,
                   !.auth = [c \in Components |-> NotMounted]])

\* What the host of the client answers on a path: the application on its own
\* paths; on a path under /api the application or another document,
\* depending on the deployment
Served(p) == IF p \in ClientPaths THEN {"app"} ELSE {"app", "other"}

\* A step of the client without a request to the server
Locally ==
  /\ req' = NoRequest
  /\ res' = NoResponse
  /\ handled' = "none"
  /\ reqUser' = ""
  /\ UNCHANGED <<users, store, nextId, now, issued, registered, loggedOut, inflight>>

\* The user opens, or reloads, a path of the application
Visit(p) ==
  /\ browser' = Load(browser, p, "app")
  /\ Locally

Loaded(isAuthenticated) ==
  [mounted |-> TRUE, isLoading |-> FALSE, isAuthenticated |-> isAuthenticated]

\* useEffect(() => { loadUserFromLocalStorage(); }, []) of the useAuth of c
loadUserFromLocalStorage(c) ==
  /\ browser.auth[c].mounted
  /\ browser.auth[c].isLoading
  /\ browser' = Render([browser EXCEPT !.auth[c] =
                          Loaded(browser.token # << >> /\ browser.user # "")])
  /\ Locally

\* The effect of the Router
RouterEffect ==
  LET a == browser.auth["Router"]
  IN /\ a.mounted
     /\ ~a.isLoading
     /\ \/ /\ ~a.isAuthenticated
           /\ browser.path # "/login"
           /\ browser' = Render([browser EXCEPT !.path = "/login"])
        \/ /\ a.isAuthenticated
           /\ browser.path = "/login"
           /\ browser' = Render([browser EXCEPT !.path = "/"])
     /\ Locally

\* The effect of the Dashboard page: window.location.href = "/api/login"
DashboardEffect ==
  LET a == browser.auth["Dashboard"]
  IN /\ a.mounted
     /\ ~a.isLoading
     /\ ~a.isAuthenticated
     /\ \E d \in Served("/api/login") : browser' = Load(browser, "/api/login", d)
     /\ Locally

\* login of the useAuth of component c
login(c, body) ==
  /\ browser.auth[c].mounted
  /\ LoginExchange(body)
  /\ browser' =
       IF res'.status = 200
         THEN Render([browser EXCEPT !.token = res'.body.token, !.user = res'.body.id,
                                     !.auth[c] = Loaded(TRUE), !.path = "/"])
         ELSE Render([browser EXCEPT !.auth[c] = Loaded(FALSE)])

\* register of the useAuth of component c: as login, without setLocation
register(c, body) ==
  /\ browser.auth[c].mounted
  /\ RegisterExchange(body, "s1")
  /\ browser' =
       IF res'.status = 201
         THEN Render([browser EXCEPT !.token = res'.body.token, !.user = res'.body.id,
                                     !.auth[c] = Loaded(TRUE)])
         ELSE Render([browser EXCEPT !.auth[c] = Loaded(FALSE)])

\* `Bearer ${localStorage.getItem('token')}`: "Bearer null" without a token
StoredBearer(b) == <<"Bearer", IF b.token = << >> THEN Malformed ELSE b.token>>

\* logout of the useAuth of component c: the request is answered, or fetch
\* rejects; the finally block runs in both cases
logout(c) ==
  /\ browser.auth[c].mounted
  /\ \/ /\ Exchange(RouteOf("POST /api/auth/logout"), StoredBearer(browser), "", << >>)
        /\ UNCHANGED loggedOut
     \/ Locally
  /\ browser' = Render([browser EXCEPT !.token = << >>, !.user = "",
                                       !.auth[c] = Loaded(FALSE), !.path = "/login"])

\* handleLogout of the Sidebar: window.location.href = "/api/logout"
handleLogout ==
  /\ browser.auth["Sidebar"].mounted
  /\ \E d \in Served("/api/logout") : browser' = Load(browser, "/api/logout", d)
  /\ Locally

\* the navItems of the Sidebar whose roles include 'staff', among the modelled paths
StaffLinks == {"/", "/inventory", "/sales"}

\* A Link of the Sidebar
Link(p) ==
  /\ browser.auth["Sidebar"].mounted
  /\ p # browser.path
  /\ browser' = Render([browser EXCEPT !.path = p])
  /\ Locally

(***************************************************************************)
(* The forms and their onError.  A text is the sequence of its pieces; the *)
(* operations on strings are given for the pieces the server sends.        *)
(***************************************************************************)
\* piece.split(', '): the pieces of text that hold the separator
SplitPiece(piece) ==
  CASE piece = ", " -> <<"", "">>
    [] piece = "Expected number, received string" -> <<"Expected number", "received string">>
    [] piece = "Expected string, received number" -> <<"Expected string", "received number">>
    [] piece = ", received number" -> <<"", "received number">>
    [] piece = ", received '" -> <<"", "received '">>
    [] OTHER -> <<piece>>

RECURSIVE Split(_)
\* text.split(', '): the parts, each the sequence of its pieces
Split(text) ==
  IF text = << >> THEN << << >> >>
  ELSE LET parts == SplitPiece(Head(text))
           n == Len(parts)
           rest == Split(Tail(text))
       IN [i \in 1..(n - 1) |-> <<parts[i]>>]
            \o << <<parts[n]>> \o Head(rest) >> \o Tail(rest)

\* piece.split(' ')[0].toLowerCase() of a piece that starts a part
FirstWordLower(piece) ==
  CASE piece \in {"Product name is required"} -> "product"
    [] piece \in {"SKU is required"} -> "sku"
    [] piece \in {"Category is required"} -> "category"
    [] piece \in {"Price must be a positive number"} -> "price"
    [] piece \in {"Stock cannot be negative"} -> "stock"
    [] piece \in {"Invalid image URL", "Invalid email address",
                  "Invalid enum value. Expected "} -> "invalid"
    [] piece \in {"Order number is required"} -> "order"
    [] piece \in {"Customer name is required"} -> "customer"
    [] piece \in {"Total amount must be positive"} -> "total"
    [] piece \in {"Employee ID is required"} -> "employee"
    [] piece \in {"First name is required"} -> "first"
    [] piece \in {"Last name is required"} -> "last"
    [] piece \in {"Position is required"} -> "position"
    [] piece \in {"Department is required"} -> "department"
    [] piece \in {"Salary must be a positive number"} -> "salary"
    [] piece \in {"Description is required"} -> "description"
    [] piece \in {"Amount must be a positive number"} -> "amount"
    [] piece \in {"Required"} -> "required"
    [] piece \in {"Expected number", "Expected string", "Expected "} -> "expected"
    [] piece \in {"received number", "received string", "received '"} -> "received"
    [] OTHER -> piece

\* err.split(' ')[0].toLowerCase() of a part
FieldName(part) ==
  LET filled == SelectSeq(part, LAMBDA piece : piece # "")
  IN IF filled = << >> THEN "" ELSE FirstWordLower(Head(filled))

\* the keys of form.getValues(): the defaultValues of each form
FormFields(c) ==
  CASE c = "products" ->
         {"name", "description", "sku", "category", "price", "stock", "status"}
    [] c = "orders" ->
         {"orderNumber", "customerName", "customerEmail", "totalAmount", "status", "type"}
    [] c = "employees" ->
         {"employeeId", "firstName", "lastName", "email", "position", "department",
          "salary", "hireDate", "status"}
    [] c = "transactions" -> {"description", "amount", "type", "category", "date"}

\* the else-if branches of the forms: a lower-cased word and its field
OtherNames(c) ==
  CASE c = "orders" -> {<<"totalamount", "totalAmount">>}
    [] c = "employees" -> {<<"hiredate", "hireDate">>}
    [] OTHER -> {}

\* the fields on which the onError of the form of c calls form.setError
setError(c, message) ==
  IF Len(message) = 0 \/ Head(message) # "Validation Error: " THEN {}
  ELSE LET validationErrors == Split(Tail(message))
           names == {FieldName(validationErrors[i]) : i \in 1..Len(validationErrors)}
       IN (names \cap FormFields(c))
            \cup {o[2] : o \in {x \in OtherNames(c) : x[1] \in names}}

\* The mutation of the form of collection c on its page, and its onError
FormSubmit(page, c, body) ==
  /\ Page(browser) = page
  /\ Exchange(RouteOf(Endpoint("create", c).name), StoredBearer(browser), "", body)
  /\ UNCHANGED loggedOut
  /\ browser' =
       IF res'.status < 400 THEN [browser EXCEPT !.errors = {}]
       ELSE IF isUnauthorizedError(res'.body.message)
         THEN [Load(browser, "/login", "app") EXCEPT !.rejected = browser.token,
                                                     !.errors = {}]
       ELSE [browser EXCEPT !.errors = setError(c, res'.body.message)]

ProductForm(body) == FormSubmit("Inventory", "products", body)

OrderForm(body) == FormSubmit("Sales", "orders", body)

EmployeeForm(body) == FormSubmit("HR", "employees", body)

TransactionForm(body) == FormSubmit("Finance", "transactions", body)

(***************************************************************************)
(* SpecClient: one tab, one account; the user opens any path, submits the  *)
(* form of the Landing page with the right and with a wrong password,      *)
(* follows the links, uses both logout controls and the transaction form;  *)
(* the token of the account expires.                                       *)
(***************************************************************************)
ClientAccount ==
  [email |-> "a@x.com", password |-> "pw1", firstName |-> "Ann", lastName |-> "Lee"]

ClientLogins == {[email |-> "a@x.com", password |-> p] : p \in Passwords}

NextClient ==
  \/ \E p \in ClientPaths : Visit(p)
  \/ \E c \in Components : loadUserFromLocalStorage(c)
  \/ RouterEffect
  \/ DashboardEffect
  \/ \E b \in ClientLogins : login("Landing", b)
  \/ register("Landing", ClientAccount)
  \/ logout("Header")
  \/ handleLogout
  \/ \E p \in StaffLinks : Link(p)
  \/ TransactionForm(ValidBody("transactions"))
  \/ TickApi

SpecClient == Init /\ [][NextClient]_vars

(***************************************************************************)
(* SpecForms: the four forms submit payloads that the server's schema      *)
(* refuses: the valid payload with one field left out or given an empty,   *)
(* a negative or an unknown value.  (The resolver of a form stops most of  *)
(* them before the request; onError is written for those that arrive.)     *)
(***************************************************************************)
Without(body, f) == [k \in DOMAIN body \ {f} |-> body[k]]

With(body, f, v) == [k \in DOMAIN body \cup {f} |-> IF k = f THEN v ELSE body[k]]

Faults == {Str(""), Num(-1), Str("bogus")}

SchemaFields(c) == {SchemaOf(c)[i].name : i \in 1..Len(SchemaOf(c))}

FaultyBodies(c) ==
  {b \in {Without(ValidBody(c), f) : f \in SchemaFields(c)}
           \cup {With(ValidBody(c), f, v) : f \in SchemaFields(c), v \in Faults} :
     ~validate(SchemaOf(c), FALSE, b).ok}

NextForms ==
  \/ \E p \in ClientPaths : Visit(p)
  \/ \E c \in Components : loadUserFromLocalStorage(c)
  \/ RouterEffect
  \/ register("Landing", ClientAccount)
  \/ \E b \in FaultyBodies("products") : ProductForm(b)
  \/ \E b \in FaultyBodies("orders") : OrderForm(b)
  \/ \E b \in FaultyBodies("employees") : EmployeeForm(b)
  \/ \E b \in FaultyBodies("transactions") : TransactionForm(b)

SpecForms == Init /\ [][NextForms]_vars

(***************************************************************************)
(* Properties                                                              *)
(***************************************************************************)
LOGIN == "POST /api/auth/login"

LOGOUT == "POST /api/auth/logout"

ErrorBody(text) == [success |-> FALSE, message |-> <<text>>]

UsersWith(coll, email) == {u \in coll : u.email = email}

\* C2: a register for an email not yet stored, with a password to hash, is
\* answered 201 and adds exactly one user, of that email; a register for a
\* stored email is answered 400 and adds none; the store never holds two
\* users of one email.
C2_RegisterOncePerEmail ==
  [][ req'.route = REGISTER =>
        LET email == req'.body.email
        IN /\ (UsersWith(users, email) = {} /\ Has(req'.body, "password")
                 => /\ res'.status = 201
                    /\ users \subseteq users'
                    /\ Cardinality(users') = Cardinality(users) + 1
                    /\ Cardinality(UsersWith(users', email)) = 1)
           /\ (UsersWith(users, email) # {}
                 => res'.status = 400 /\ users' = users)
           /\ \A u, v \in users' : u.email = v.email => u = v ]_vars

C2_Witness ==
  /\ req.route = REGISTER
  /\ res.status = 400
  /\ res.body = ErrorBody("User already exists")
  /\ Cardinality(users) = 2
  /\ Cardinality(UsersWith(users, req.body.email)) = 1

\* C3: login is answered 200 exactly when its email and password are a pair
\* that a registration stored; the 200 body carries that user's id, email,
\* names and role, and a token issued at this instant that verifies to the
\* user's id.
C3_LoginIffRegisteredPair ==
  req.route = LOGIN =>
    /\ res.status = 200
         <=> (Has(req.body, "password") /\ <<req.body.email, req.body.password>> \in registered)
    /\ res.status = 200 =>
         \E u \in users :
            /\ u.email = req.body.email
            /\ res.body.id = ToString(u._id)
            /\ res.body.email = u.email
            /\ res.body.firstName = u.firstName
            /\ res.body.lastName = u.lastName
            /\ res.body.role = u.role
            /\ res.body.token \in issued
            /\ res.body.token[2].iat = now
            /\ jwtVerify(res.body.token, JWT_SECRET, now).ok
            /\ jwtVerify(res.body.token, JWT_SECRET, now).decoded.userId = ToString(u._id)

C3_Witness ==
  /\ req.route = LOGIN
  /\ res.status = 200
  /\ now > 0
  /\ Cardinality(users) = 2
  /\ res.body.id = "2"

\* C4: a login whose password is not the registered one, for a known email or
\* for an unknown one, gets one and the same response, 400 'Invalid
\* credentials', and changes neither the store nor the tokens in circulation.
InvalidCredentials == [status |-> 400, body |-> ErrorBody("Invalid credentials")]

WrongLogin(r) ==
  /\ r.route = LOGIN
  /\ Has(r.body, "password")
  /\ <<r.body.email, r.body.password>> \notin registered

C4_UniformInvalidCredentials ==
  [][ WrongLogin(req)' =>
        /\ res' = InvalidCredentials
        /\ users' = users /\ store' = store /\ issued' = issued ]_vars

C4_Witness ==
  /\ WrongLogin(req)
  /\ UsersWith(users, req.body.email) # {}
  /\ \E other \in Emails : UsersWith(users, other) = {}
  /\ res = InvalidCredentials


\* the token of an Authorization header of the form 'Bearer <token>'
Bearer(r) == r.authorization[2]

BearsIssuedToken(r) ==
  /\ r.route \notin {"none", REGISTER, LOGIN}
  /\ Len(r.authorization) = 2
  /\ r.authorization[1] = "Bearer"
  /\ Bearer(r) \in issued

Unauthorized(text) == [status |-> 401, body |-> ErrorBody(text)]

\* C5: a token issued at T expires at T + 60 minutes exactly; a protected
\* route accepts it at every instant before T + 60 and rejects it at every
\* instant after T + 60 with 401 'Not authorized, token expired'.
C5_TokenLivesOneHour ==
  /\ \A t \in issued : t[2].exp = t[2].iat + 60
  /\ BearsIssuedToken(req) =>
       LET T == Bearer(req)[2].iat
       IN /\ now < T + 60 => /\ handled = req.route
                             /\ reqUser = Bearer(req)[2].userId
                             /\ res.status = 200
          /\ now > T + 60 => /\ res = Unauthorized("Not authorized, token expired")
                             /\ handled = "none"
                             /\ reqUser = ""

C5_Witness ==
  /\ BearsIssuedToken(req)
  /\ Bearer(req)[2].iat = 0
  /\ now = 61
  /\ res = Unauthorized("Not authorized, token expired")

\* C6: a token that has the header and payload of an issued token and another
\* signature is rejected with 401 'Not authorized, token failed', whether the
\* issued token has expired or not; no user is attached to the request and no
\* handler runs.
SignatureDiffers(x) ==
  /\ Len(x) = 3
  /\ \E t \in issued : x[1] = t[1] /\ x[2] = t[2] /\ x[3] # t[3]

C6_TamperedSignatureRejected ==
  (/\ req.route \notin {"none", REGISTER, LOGIN}
   /\ Len(req.authorization) = 2
   /\ req.authorization[1] = "Bearer"
   /\ SignatureDiffers(Bearer(req)))
    => /\ res = Unauthorized("Not authorized, token failed")
       /\ reqUser = ""
       /\ handled = "none"

C6_Witness ==
  /\ req.route \notin {"none", REGISTER, LOGIN}
  /\ Len(req.authorization) = 2
  /\ SignatureDiffers(Bearer(req))
  /\ now >= Bearer(req)[2].exp
  /\ res = Unauthorized("Not authorized, token failed")

\* An Authorization header that carries, after the scheme, a token the server
\* signed and whose expiry lies ahead
Authentic(r) ==
  /\ Len(r.authorization) >= 2
  /\ StartsWithBearer(r.authorization[1])
  /\ Bearer(r) \in issued
  /\ now < Bearer(r)[2].exp

\* C1: on every protected route a handler runs only for a request with an
\* authentic bearer token; every other request is answered 401 with no user
\* attached and no handler run, and leaves users, store and ids as they were.
C1_ProtectGate ==
  [][ req'.route \notin {"none", REGISTER, LOGIN} =>
        /\ handled' # "none" => Authentic(req)' /\ handled' = req'.route
        /\ ~Authentic(req)' =>
              /\ res'.status = 401
              /\ handled' = "none"
              /\ reqUser' = ""
              /\ store' = store /\ users' = users /\ nextId' = nextId ]_vars

C1_Witness ==
  /\ req.route = "DELETE /api/products/:id"
  /\ req.id = "1"
  /\ Len(req.authorization) = 2
  /\ SignatureDiffers(Bearer(req))
  /\ res.status = 401
  /\ handled = "none"
  /\ \E d \in store["products"] : d._id = 1

\* C8: every stored user has role 'staff', whatever role the register body
\* asked for, and no step of the API removes or alters a stored user (its
\* role, email and password stay as registration wrote them).
C8_RoleStaysStaff ==
  [][ /\ \A u \in users' : u.role = "staff"
      /\ \A u \in users : u \in users' ]_vars

C8_Witness ==
  /\ req.route = REGISTER
  /\ Has(req.body, "role")
  /\ req.body.role = "admin"
  /\ res.status = 201
  /\ \E u \in users : u.email = req.body.email /\ u.role = "staff"

\* C7: the gate answers 401 with 'Not authorized, no token' when no bearer
\* token is sent, 'Not authorized, token failed' when the signature is not
\* the server's, 'Not authorized, token expired' when an issued token is past
\* its expiry.
C7_GateMessages ==
  req.route \notin {"none", REGISTER, LOGIN} =>
    /\ req.authorization = << >> => res = Unauthorized("Not authorized, no token")
    /\ (Len(req.authorization) = 2 /\ SignatureDiffers(Bearer(req)))
         => res = Unauthorized("Not authorized, token failed")
    /\ (BearsIssuedToken(req) /\ now >= Bearer(req)[2].exp)
         => res = Unauthorized("Not authorized, token expired")

\* C7, as claimed: the three messages of the gate, and the client's
\* isUnauthorizedError is true of every 401 message and false of the message
\* of every 400 and 404 response (validation, duplicate, not found, invalid
\* credentials).
C7_ClientTellsUnauthorized ==
  /\ C7_GateMessages
  /\ res.status = 401 => isUnauthorizedError(res.body.message)
  /\ res.status \in {400, 404} => ~isUnauthorizedError(res.body.message)

LogoutSucceeded == [status |-> 200, body |-> [message |-> <<"Logged out successfully">>]]

\* C9: a logout that passes the gate is answered 200 'Logged out
\* successfully' and leaves users, store, ids and tokens as they were; a token
\* that was logged out is still accepted on every protected route (its user
\* attached, no 401) at every instant before its expiry.
C9_LogoutRevokesNothing ==
  [][ /\ (req'.route = LOGOUT /\ Authentic(req)')
           => /\ res' = LogoutSucceeded
              /\ users' = users /\ store' = store /\ nextId' = nextId
              /\ issued' = issued
      /\ (BearsIssuedToken(req)' /\ Bearer(req)' \in loggedOut'
             /\ now' < Bearer(req)'[2].exp)
           => /\ reqUser' = Bearer(req)'[2].userId
              /\ res'.status # 401 ]_vars

C9_Witness ==
  /\ req.route = "POST /api/products"
  /\ BearsIssuedToken(req)
  /\ Bearer(req) \in loggedOut
  /\ Bearer(req)[2].iat = 0
  /\ now = 59
  /\ res.status = 201

PostRoutes ==
  {"POST /api/products", "POST /api/orders", "POST /api/employees", "POST /api/transactions"}

PutRoutes == {"PUT /api/products/:id", "PUT /api/orders/:id", "PUT /api/employees/:id"}

ValidationError(issues) ==
  [status |-> 400,
   body |-> [success |-> FALSE, message |-> <<"Validation Error: ">> \o issues]]

\* the text after 'Validation Error: ' that each body of SpecMessages must
\* get, read off the schemas by hand; the empty text for a body that passes
ExpectedIssues(body, partial) ==
  CASE body = PriceMinus5 -> <<"Price must be a positive number">>
    [] body = ThreeWrong ->
         <<"Product name is required", ", ", "Price must be a positive number", ", ",
           "Stock cannot be negative">>
    [] body = NoSku ->
         IF partial THEN <<"Expected number, received string">>
                    ELSE <<"Required", ", ", "Expected number, received string">>
    [] body = EchoedStatus("gone") ->
         <<"Invalid enum value. Expected ", "'active' | 'discontinued'", ", received '",
           "gone", "'">>
    [] body = EchoedStatus("Not authorized, token failed") ->
         <<"Invalid enum value. Expected ", "'active' | 'discontinued'", ", received '",
           "Not authorized, token failed", "'">>
    [] body = OnlyPrice(20) ->
         IF partial THEN << >>
                    ELSE <<"Required", ", ", "Required", ", ", "Required", ", ", "Required">>
    [] body = OnlyPrice(-5) ->
         IF partial THEN <<"Price must be a positive number">>
                    ELSE <<"Required", ", ", "Required", ", ", "Required", ", ",
                           "Price must be a positive number", ", ", "Required">>
    [] body = NoAmount -> <<"Total amount must be positive">>
    [] body = BadEmail -> <<"Invalid email address">>
    [] body = Refund ->
         <<"Amount must be a positive number", ", ", "Invalid enum value. Expected ",
           "'income' | 'expense' | 'transfer'", ", received '", "refund", "'">>
    [] OTHER -> << >>

\* C10: on a POST or PUT that passed the auth gate, a body that violates the
\* schema is answered 400 'Validation Error: ' plus every issue's message
\* joined by ', ', no handler runs and store and ids stay as they were; a
\* body that satisfies the schema reaches the handler of its route.
C10_ValidateGate ==
  [][ (req'.route \in PostRoutes \cup PutRoutes /\ Authentic(req)') =>
        LET expected == ExpectedIssues(req'.body, req'.route \in PutRoutes)
        IN IF expected # << >>
             THEN /\ res' = ValidationError(expected)
                  /\ handled' = "none"
                  /\ store' = store /\ nextId' = nextId
             ELSE handled' = req'.route ]_vars

C10_Witness ==
  /\ req.route = "POST /api/products"
  /\ req.body = ThreeWrong
  /\ Authentic(req)
  /\ res.status = 400
  /\ Len(res.body.message) = 6
  /\ Includes(res.body.message, "Price must be a positive number")
  /\ handled = "none"

\* a step writes a record: the users or a collection hold afterwards a record
\* they did not hold before
Writes ==
  \/ \E u \in users' : u \notin users
  \/ \E c \in Collections : \E d \in store'[c] : d \notin store[c]

\* the request went through validate(schema) and its body was accepted
Validated(r) ==
  /\ r.route \in PostRoutes \cup PutRoutes
  /\ ZodIssues(SchemaOf(RouteOf(r.route).collection), r.body,
               r.route \in PutRoutes) = << >>

\* C11, for the four collections: a step that creates or updates a product,
\* order, employee or transaction is a POST or PUT whose body the schema
\* accepted.
C11_CollectionsValidated ==
  [][ (\E c \in Collections : \E d \in store'[c] : d \notin store[c])
        => Validated(req)' ]_vars

\* C11, as claimed: every step that creates or updates a record of any
\* entity, users included, is a request whose body the validation layer
\* accepted.
C11_EveryWriteValidated == [][ Writes => Validated(req)' ]_vars

ClaimedKeys(c) ==
  CASE c = "products" -> {"sku"}
    [] c = "orders" -> {"orderNumber"}
    [] c = "employees" -> {"employeeId", "email"}
    [] c = "transactions" -> {}

\* the body of request r gives a key the value another stored document has
Clashes(r, st) ==
  LET x == RouteOf(r.route)
      coll == st[x.collection]
      others == IF x.op = "create" THEN coll
                ELSE {d \in coll : ToString(d._id) # r.id}
  IN /\ x.op \in {"create", "update"}
     /\ x.op = "update" => \E d \in coll : ToString(d._id) = r.id
     /\ \E d \in others, k \in ClaimedKeys(x.collection) \cap DOMAIN r.body :
           d[k] = r.body[k].v

\* C13: no two stored products share a sku, no two orders an orderNumber, no
\* two employees an employeeId or an email; a create or update that reaches
\* its handler and would give a key the value of another document is
\* answered 400 and leaves the store as it was.
C13_KeysUnique ==
  [][ /\ \A c \in Collections : \A d, e \in store'[c] :
            \A k \in ClaimedKeys(c) : d[k] = e[k] => d = e
      /\ (Routed(req'.route) /\ handled' = req'.route /\ Clashes(req', store))
           => res'.status = 400 /\ store' = store ]_vars

C13_Witness ==
  /\ req.route = "PUT /api/employees/:id"
  /\ req.body = [email |-> Str("b@x.com")]
  /\ res = [status |-> 400, body |-> ErrorBody("Duplicate field value entered")]
  /\ Cardinality(store["employees"]) = 2

\* the stored documents that the :id of a request addresses
Addressed(r, st) ==
  {d \in st[RouteOf(r.route).collection] : ToString(d._id) = r.id}

\* the value a payload gives a field, as the store keeps it
PayloadValue(f, body) == IF f \in DateFields THEN DateOf(body[f].v) ELSE body[f].v

\* after a PUT answered 200: the fields in names have the payload's value,
\* the fields the payload does not name are as before, nothing else changed
Patched(names) ==
  LET c == RouteOf(req'.route).collection
      body == req'.body
  IN \E old \in Addressed(req', store), new \in Addressed(req', store') :
        /\ \A f \in names : f \in DOMAIN new /\ new[f] = PayloadValue(f, body)
        /\ \A f \in DOMAIN old \ DOMAIN body : f \in DOMAIN new /\ new[f] = old[f]
        /\ store'[c] \ {new} = store[c] \ {old}
        /\ \A o \in Collections \ {c} : store'[o] = store[o]
        /\ users' = users

\* C14, for the fields the stored entity has: a PUT answered 200 gives every
\* payload field that is a path of the mongoose schema the payload's value
\* and leaves the other fields and every other entity as they were.
C14_PatchOfStoredPaths ==
  [][ (req'.route \in PutRoutes /\ res'.status = 200)
        => Patched(DOMAIN req'.body \cap ModelFields(RouteOf(req'.route).collection)) ]_vars

\* C14, as claimed: after a PUT answered 200 every field named in the payload
\* has the payload's value, every field not named keeps its value, and no
\* other entity is changed.
C14_PartialPatch ==
  [][ (req'.route \in PutRoutes /\ res'.status = 200)
        => Patched(DOMAIN req'.body) ]_vars

\* C15: a get-by-id, update or delete that reaches its handler with an id no
\* stored entity has (an absent ObjectId, or a text that is none) is answered
\* 404 and leaves the store as it was.
C15_AbsentIdNotFound ==
  [][ (/\ Routed(req'.route)
       /\ RouteOf(req'.route).op \in {"get", "update", "delete"}
       /\ handled' = req'.route
       /\ Addressed(req', store) = {})
        => res'.status = 404 /\ store' = store /\ nextId' = nextId ]_vars

C15_Witness ==
  /\ req.route = "DELETE /api/products/:id"
  /\ req.id = "1"
  /\ nextId["products"] > 1
  /\ res = [status |-> 404, body |-> ErrorBody("Product not found for deletion")]
  /\ store["products"] # {}

\* the documents a list response holds
Listed(body) == {body[i] : i \in 1..Len(body)}

\* C17: the product a POST answered 201 returns is stored under the id
\* returned; a list returns every stored product and a get-by-id of a stored
\* id returns that product; a stored product stays stored, under its id,
\* over every step that is not a DELETE of that id answered 204.
C17_CreatedStaysRetrievable ==
  [][ /\ (req'.route = "POST /api/products" /\ res'.status = 201)
           => /\ res'.body \in store'["products"]
              /\ \A d \in store["products"] : d._id # res'.body._id
      /\ (req'.route = "GET /api/products" /\ handled' = req'.route)
           => /\ res'.status = 200
              /\ Listed(res'.body) = store["products"]
              /\ Len(res'.body) = Cardinality(store["products"])
      /\ (req'.route = "GET /api/products/:id" /\ handled' = req'.route)
           => \A d \in Addressed(req', store) : res'.status = 200 /\ res'.body = d
      /\ \A d \in store["products"] :
            \/ \E e \in store'["products"] : e._id = d._id
            \/ /\ req'.route = "DELETE /api/products/:id"
               /\ req'.id = ToString(d._id)
               /\ res'.status = 204 ]_vars

C17_Witness ==
  /\ req.route = "GET /api/products"
  /\ res.status = 200
  /\ Len(res.body) = 2
  /\ \E i \in 1..2 : res.body[i]._id = 2 /\ res.body[i].sku = "B"

\* the deletes of product n that passed protect
Deletes(n) ==
  {k \in Connections : /\ inflight[k].pc \in {"gated", "deleted", "done"}
                       /\ inflight[k].id = ToString(n)
                       /\ inflight[k].res.status # 401}

\* C16: when every DELETE sent for a product has been answered, and the
\* product was stored when one of them arrived, exactly one of them was
\* answered 204, every other one 404, and neither the list nor a get-by-id
\* returns the product; however the steps of the requests interleaved.
C16_OneDeleteWins ==
  \A n \in 1..(nextId["products"] - 1) :
    LET D == Deletes(n)
        lists == SortDesc(store["products"], SortKey("products"))
    IN (/\ \E k \in D : inflight[k].stored
        /\ \A k \in D : inflight[k].pc = "done")
         => /\ Cardinality({k \in D : inflight[k].res.status = 204}) = 1
            /\ \A k \in D :
                 \/ inflight[k].res.status = 204
                 \/ inflight[k].res = [status |-> 404,
                                       body |-> ErrorBody("Product not found for deletion")]
            /\ \A list \in lists : \A i \in 1..Len(list) : list[i]._id # n
            /\ ~getById("products", store["products"], ToString(n)).ok

\* two deletes of product 1 that both arrived while it was stored
C16_Witness ==
  /\ \A k \in {1, 2} : /\ inflight[k].pc = "done"
                        /\ inflight[k].id = "1"
                        /\ inflight[k].stored
  /\ inflight[1].res.status = 404
  /\ inflight[2].res.status = 204
  /\ store["products"] # {}

\* the stored documents of a collection that a request's :id addresses
Stored(c, r, st) == {d \in st[c] : ToString(d._id) = r.id}

\* what the claim says of the verbs E: a request to one of them is taken by
\* a route (not by Express's default handler); without an authentic token
\* it is answered 401; a POST or PUT whose body the schema refuses is
\* answered 400; a DELETE of a stored id is answered 204 and removes it
VerbContract(E) ==
  \A e \in E :
    req'.route = e.name =>
      /\ res' # finalhandler(e.name)
      /\ ~Authentic(req)' => res'.status = 401
      /\ (/\ Authentic(req)'
          /\ e.validated
          /\ ZodIssues(SchemaOf(e.collection), req'.body, e.partial) # << >>)
           => res'.status = 400
      /\ (Authentic(req)' /\ e.op = "delete" /\ Stored(e.collection, req', store) # {})
           => /\ res'.status = 204
              /\ Stored(e.collection, req', store') = {}

\* C18, for the verbs that registerRoutes mounts (the five of products,
\* list, POST and PUT of orders and employees, list and POST of
\* transactions): behind protect, POST and PUT behind validate, DELETE
\* answers 204.
C18_MountedVerbs == [][ VerbContract({e \in VerbSet : Routed(e.name)}) ]_vars

\* C18, as claimed: orders, employees and transactions take the five verbs
\* that products take (list, get by id, POST, PUT by id, DELETE by id),
\* each behind the auth gate, POST and PUT behind validation, DELETE
\* answering 204 on success.
C18_SameVerbSet == [][ VerbContract(VerbSet) ]_vars

\* the body of an error response: {success: false, message: <text>}
ErrorShaped(body) ==
  /\ DOMAIN body = {"success", "message"}
  /\ body.success = FALSE
  /\ body.message # << >>

\* C19, for the requests that a route takes: every error response of
\* register, login and the mounted routes has the body
\* {success: false, message}.
C19_RoutedErrorsShaped ==
  [][ (res'.status >= 400 /\ (Routed(req'.route) \/ req'.route \in {REGISTER, LOGIN}))
        => ErrorShaped(res'.body) ]_vars

\* C19, as claimed: every error response, whatever the path and the verb of
\* the request, has the body {success: false, message: <string>}.
C19_EveryErrorShaped == [][ res'.status >= 400 => ErrorShaped(res'.body) ]_vars

\* the body gives a date field a text that is no date
BadDate(body) == \E f \in (DOMAIN body) \cap DateFields : DateOf(body[f].v) = 0

\* the category of the error of request r, in the state it arrives in:
\* "none" if nothing is wrong with it, "cast" for an update that names a
\* stored entity and gives it a date that is none, "unexpected" for a
\* password that is missing where one is hashed or compared
ErrorCategory(r) ==
  IF r.route = REGISTER
    THEN IF UsersWith(users, r.body.email) # {} THEN "duplicate"
         ELSE IF ~Has(r.body, "password") THEN "unexpected" ELSE "none"
  ELSE IF r.route = LOGIN
    THEN IF UsersWith(users, r.body.email) = {} THEN "credentials"
         ELSE IF ~Has(r.body, "password") THEN "unexpected"
         ELSE IF <<r.body.email, r.body.password>> \notin registered THEN "credentials"
         ELSE "none"
  ELSE IF ~Routed(r.route) THEN "absent"
  ELSE LET e == RouteOf(r.route)
       IN IF ~Authentic(r) THEN "auth"
          ELSE IF e.validated /\ ZodIssues(SchemaOf(e.collection), r.body, e.partial) # << >>
            THEN "validation"
          ELSE IF e.op \in {"get", "delete"}
            THEN IF Stored(e.collection, r, store) = {} THEN "absent" ELSE "none"
          ELSE IF e.op = "create"
            THEN IF BadDate(r.body) THEN "validation"
                 ELSE IF Clashes(r, store) THEN "duplicate" ELSE "none"
          ELSE IF e.op = "update"
            THEN IF Stored(e.collection, r, store) = {} THEN "absent"
                 ELSE IF BadDate(r.body) THEN "cast"
                 ELSE IF Clashes(r, store) THEN "duplicate" ELSE "none"
          ELSE "none"

\* the status of each category, given those of the two categories on which
\* the claim and the code differ
StatusOf(category, credentials, cast) ==
  CASE category \in {"validation", "duplicate"} -> 400
    [] category = "auth" -> 401
    [] category = "credentials" -> credentials
    [] category = "absent" -> 404
    [] category = "cast" -> cast
    [] category = "unexpected" -> 500

ByCategory(credentials, cast) ==
  req'.route # "none" =>
    LET category == ErrorCategory(req')
    IN IF category = "none" THEN res'.status < 400
       ELSE res'.status = StatusOf(category, credentials, cast)

KPIS == "GET /api/dashboard/kpis"

\* the sum of the amounts of the transactions of type income, taken over
\* the ids in the order they were given
RECURSIVE IncomeUpTo(_, _)
IncomeUpTo(coll, n) ==
  IF n = 0 THEN 0
  ELSE LET hit == {t \in coll : t._id = n /\ t.type = "income"}
       IN IncomeUpTo(coll, n - 1)
            + (IF hit = {} THEN 0 ELSE (CHOOSE t \in hit : TRUE).amount)

CreatedLater(d, e) == d._id > e._id

\* the time a list is sorted by: the date of a transaction, the creation
\* time of every other document
LaterStamp(d, e) ==
  IF "date" \in DOMAIN d THEN d.date > e.date ELSE d.createdAt > e.createdAt

\* a list answered by its handler returns every stored document of its
\* collection exactly once, and the later of two documents, by creation or
\* by time stamp, first
ListedInOrder(by) ==
  \A r \in {x \in Routes : x.op = "list"} :
    (req'.route = r.name /\ handled' = r.name) =>
      LET list == res'.body
          coll == store[r.collection]
      IN /\ res'.status = 200
         /\ Listed(list) = coll
         /\ Len(list) = Cardinality(coll)
         /\ \A i, j \in 1..Len(list) :
              (IF by = "creation" THEN CreatedLater(list[i], list[j])
                                  ELSE LaterStamp(list[i], list[j])) => i < j

\* C22, as claimed: a list returns every stored entity of its kind exactly
\* once, an entity created later before every entity created earlier.
C22_NewestCreatedFirst == [][ ListedInOrder("creation") ]_vars

\* C22, amended: a list returns every stored entity of its kind exactly
\* once, ordered by time descending: a product, order or employee with a
\* later createdAt before every one with an earlier createdAt, a transaction
\* with a later date before every one with an earlier date.
C22_LatestStampFirst == [][ ListedInOrder("stamp") ]_vars

\* the transaction created second, dated the day before, is listed second
C22_Witness ==
  /\ req.route = "GET /api/transactions"
  /\ res.status = 200
  /\ Len(res.body) = 2
  /\ res.body[1]._id = 1 /\ res.body[1].date = 2
  /\ res.body[2]._id = 2 /\ res.body[2].date = 1
  /\ res.body[2].createdAt > res.body[1].createdAt

\* the role of the user a token names
RoleOf(token) == (CHOOSE u \in users : ToString(u._id) = token[2].userId).role

\* what a request leaves behind: the response and the collections
Outcome == [res |-> res, store |-> store, nextId |-> nextId]

\* the outcomes of a request to route r, read off the storage layer with no
\* caller in sight
Outcomes(r, id, body) ==
  LET c == r.collection
      Same(response) == [res |-> response, store |-> store, nextId |-> nextId]
      Stores(g, status) ==
        IF g.ok THEN {[res |-> [status |-> status,
                                body |-> IF r.op = "delete" THEN << >> ELSE g.value],
                       store |-> [store EXCEPT ![c] = g.coll],
                       nextId |-> IF r.op = "create" THEN [nextId EXCEPT ![c] = @ + 1]
                                                     ELSE nextId]}
                ELSE {Same(errorHandler(g.error))}
      checked == validate(SchemaOf(c), r.partial, body)
  IN IF r.validated /\ ~checked.ok THEN {Same(errorHandler(checked.error))}
     ELSE CASE r.op = "logout" ->
                 {Same([status |-> 200, body |-> [message |-> <<"Logged out successfully">>]])}
            [] r.op = "kpis" -> {Same([status |-> 200, body |-> getDashboardKPIs(store)])}
            [] r.op = "list" ->
                 {Same([status |-> 200, body |-> l]) : l \in SortDesc(store[c], SortKey(c))}
            [] r.op = "get" ->
                 LET g == getById(c, store[c], id)
                 IN {Same(IF g.ok THEN [status |-> 200, body |-> g.value]
                                  ELSE errorHandler(g.error))}
            [] r.op = "create" -> Stores(create(c, store[c], body, nextId[c], now), 201)
            [] r.op = "update" -> Stores(update(c, store[c], id, body), 200)
            [] r.op = "delete" -> Stores(delete(c, store[c], id), 204)

\* C23: whenever a caller holding a valid token sends a protected request,
\* whatever the caller's role, the gate would let every other token holder
\* of another role through as well, and the response and the change of the
\* store are an outcome of the storage layer for that request, in which no
\* caller and no role occurs: callers of different roles get the same.
C23_RolesAlike ==
  [][ (/\ Routed(req'.route)
       /\ Len(req'.authorization) = 2
       /\ req'.authorization[2] \in CallerTokens)
        => /\ \A t \in CallerTokens : protect(<<"Bearer", t>>, now).ok
           /\ reqUser' = req'.authorization[2][2].userId
           /\ Outcome' \in Outcomes(RouteOf(req'.route), req'.id, req'.body)
           /\ users' = users ]_vars

\* a caller of role staff has deleted a product while an admin exists
C23_Witness ==
  /\ req.route = DELETE_PRODUCT
  /\ res.status = 204
  /\ Len(req.authorization) = 2
  /\ req.authorization[2] \in CallerTokens
  /\ RoleOf(req.authorization[2]) = "staff"
  /\ \E u \in users : u.role = "admin"

(***************************************************************************)
(* The client session                                                      *)
(***************************************************************************)
\* both entries of the session are in localStorage
SessionStored(b) == b.token # << >> /\ b.user # ""

\* component c has finished loading and takes the user for authenticated
Authenticated(b, c) ==
  /\ b.auth[c].mounted
  /\ ~b.auth[c].isLoading
  /\ b.auth[c].isAuthenticated

AuthRequests == {"POST /api/auth/register", "POST /api/auth/login"}

\* a login or register that the server refused leaves no component
\* authenticated that was not
FailedStaysAnonymous ==
  (req'.route \in AuthRequests /\ res'.status >= 400)
    => \A c \in Components : Authenticated(browser', c) => Authenticated(browser, c)

\* C24: in every reachable state of the client, a component using useAuth
\* whose isLoading is false has isAuthenticated true only if both the token
\* and the user are in localStorage, and a failed login or register never
\* makes a component authenticated.
C24_AuthenticatedHasSession ==
  /\ [](\A c \in Components : Authenticated(browser, c) => SessionStored(browser))
  /\ [][FailedStaysAnonymous]_vars

\* the part of C24 that the code keeps: a failed login or register
C24_FailedStaysAnonymous == [][FailedStaysAnonymous]_vars

\* the Router still takes the user for authenticated after the logout of the
\* Header has emptied localStorage
C24_StaleRouter ==
  /\ Authenticated(browser, "Router")
  /\ ~SessionStored(browser)
  /\ req.route = "POST /api/auth/logout"

(***************************************************************************)
(* SpecClientLive: the client with its effects run: React runs the effect  *)
(* of a component after the render that enabled it, so no effect stays     *)
(* enabled for ever without running.  The steps of the user and of the     *)
(* clock carry no such condition.                                          *)
(***************************************************************************)
Effects ==
  \/ \E c \in Components : loadUserFromLocalStorage(c)
  \/ RouterEffect
  \/ DashboardEffect

SpecClientLive == Init /\ [][NextClient]_vars /\ WF_vars(Effects)

\* the step was the login of the Landing page, answered with a token
LoginSucceeded == req.route = "POST /api/auth/login" /\ res.status = 200

AtDashboard == browser.path = "/" /\ Page(browser) = "Dashboard"

\* the Router sends a user whose session is stored to the login page
RedirectedBack ==
  /\ RouterEffect
  /\ SessionStored(browser)
  /\ browser'.path = "/login"

\* C25: after a login submitted from the login page succeeds, the
\* application comes to path '/' with the Dashboard rendered, and the Router
\* does not redirect the user back to '/login'.
C25_LoginReachesDashboard ==
  /\ LoginSucceeded ~> AtDashboard
  /\ [][~RedirectedBack]_vars

\* the response of the login is the only way the Router could learn of it
C25_RouterUnaware ==
  [][LoginSucceeded' => browser'.auth["Router"] = browser.auth["Router"]]_vars

\* one of the two logout controls is pressed
LogoutControl == logout("Header") \/ handleLogout

\* a logout control has just acted
LogoutPressed ==
  \/ req.route = "POST /api/auth/logout"
  \/ browser.path = "/api/logout"

AtLogin == browser.path = "/login" /\ Page(browser) = "Landing"

\* C26: each logout control (the button of the Header, the button of the
\* Sidebar) removes the token and the user from localStorage, whether or not
\* the server answers the logout, and afterwards the application comes to
\* '/login' with the login page rendered.
C26_LogoutDiscardsSession ==
  /\ [][LogoutControl => (browser'.token = << >> /\ browser'.user = "")]_vars
  /\ LogoutPressed ~> AtLogin

\* the control of the Header does remove both entries, answered or not
C26_HeaderDiscardsSession ==
  [][logout("Header") => (browser'.token = << >> /\ browser'.user = "")]_vars

\* the control of the Sidebar leaves the session stored
C26_SidebarKeepsSession ==
  /\ browser.path = "/api/logout"
  /\ SessionStored(browser)

\* the request of the form was refused by protect
FormRejected == req.route = "POST /api/transactions" /\ res.status = 401

\* the login page, with no session stored and no component authenticated
Anonymous ==
  /\ AtLogin
  /\ ~SessionStored(browser)
  /\ \A c \in Components : ~Authenticated(browser, c)

ProtectedPages == {"Dashboard", "Inventory", "Sales", "HR", "Finance"}

\* a protected page is shown while the stored token is the one a form's
\* request was refused with
BackWithRejectedToken ==
  /\ Page(browser) \in ProtectedPages
  /\ browser.token # << >>
  /\ browser.token = browser.rejected

\* C27: when a protected request of a form fails with an unauthorized error,
\* the client comes to the login page in the Anonymous state, and it does
\* not return to a protected page while it holds the rejected token.
C27_RejectedReachesLogin ==
  /\ FormRejected ~> Anonymous
  /\ []~BackWithRejectedToken

\* the form's handler does bring the tab to '/login'
C27_RejectedLoadsLogin ==
  [][FormRejected' => (browser'.path = "/login" /\ browser'.token = browser.token)]_vars

\* back on the Dashboard with the token that was refused
C27_BackWithRejectedToken ==
  /\ AtDashboard
  /\ BackWithRejectedToken
  /\ Authenticated(browser, "Dashboard")

\* the Router has finished loading and one of its two rules applies
MustRedirect(b) ==
  /\ b.auth["Router"].mounted
  /\ ~b.auth["Router"].isLoading
  /\ \/ ~b.auth["Router"].isAuthenticated /\ b.path # "/login"
     \/ b.auth["Router"].isAuthenticated /\ b.path = "/login"

\* where the rules of the Router send the user
RedirectTarget(b) == IF b.auth["Router"].isAuthenticated THEN "/" ELSE "/login"

\* a protected page, or a component of one, is on the screen
ProtectedShown(b) ==
  \/ Page(b) \in ProtectedPages
  \/ \E c \in Components \ {"Router", "Landing"} : b.auth[c].mounted

\* C28: once the Router has finished loading, a protected page is rendered
\* only while the Router's isAuthenticated is true; an unauthenticated user
\* on a path other than '/login' is redirected to '/login' and an
\* authenticated user on '/login' to '/'; after a redirect no rule applies
\* any more, so the path is stable.
C28_RouterRules ==
  /\ [](ProtectedShown(browser) => Authenticated(browser, "Router"))
  /\ [](MustRedirect(browser) => ENABLED RouterEffect)
  /\ [][RouterEffect => /\ MustRedirect(browser)
                        /\ browser'.path = RedirectTarget(browser)
                        /\ browser'.auth["Router"] = browser.auth["Router"]
                        /\ ~MustRedirect(browser')]_vars

\* the Dashboard with its Header, shown to an authenticated user whom the
\* Router has nowhere to send
C28_Witness ==
  /\ AtDashboard
  /\ Authenticated(browser, "Router")
  /\ browser.auth["Header"].mounted
  /\ ~MustRedirect(browser)

\* the fields of the payload for which the schema of c reports an issue
AtFault(c, body) ==
  {SchemaOf(c)[i].name : i \in {j \in 1..Len(SchemaOf(c)) :
                                  FieldIssues(SchemaOf(c)[j], body, FALSE) # << >>}}

\* a form's request was answered with the issues of its payload
ValidationAnswered ==
  /\ res.status = 400
  /\ Routed(req.route)
  /\ RouteOf(req.route).op = "create"
  /\ Head(res.body.message) = "Validation Error: "

\* C29: for every message the schemas of the server emit for a field of a
\* product, order, employee or transaction, the form that receives the
\* 'Validation Error: ' response sets a form error on the field that caused
\* the message.
C29_FieldErrorsSet ==
  ValidationAnswered
    => AtFault(RouteOf(req.route).collection, req.body) \subseteq browser.errors

\* the messages that begin with the name of their field do reach it
C29_NamedFieldsSet ==
  ValidationAnswered
    => \A f \in AtFault(RouteOf(req.route).collection, req.body) :
         (\E i \in 1..Len(res.body.message) : FirstWordLower(res.body.message[i]) = f)
           => f \in browser.errors

\* 'Product name is required' arrives and the form shows no error at all
C29_NameNotMarked ==
  /\ ValidationAnswered
  /\ res.body.message = <<"Validation Error: ", "Product name is required">>
  /\ browser.errors = {}

\* the connections whose register request for email e found no user at its
\* lookup and has been answered
AnsweredFresh(e) ==
  {k \in Connections : /\ inflight[k].route = REGISTER
                       /\ inflight[k].pc = "done"
                       /\ inflight[k].body.email = e
                       /\ ~inflight[k].stored}

\* the tokens the answered connections were given
TokensGiven ==
  {inflight[k].res.body.token :
     k \in {j \in Connections : inflight[j].route = REGISTER /\ inflight[j].res.status = 201}}

\* C30: when two register requests for the same fresh email are interleaved,
\* both looking the email up before either saves, exactly one user is
\* created, exactly one of them is answered 201 with a token and the other
\* 400, and no token is issued for a user that was not stored.
C30_OneRegisterWins ==
  /\ \A e \in Emails :
       /\ Cardinality({u \in users : u.email = e}) <= 1
       /\ Cardinality(AnsweredFresh(e)) >= 2
            => /\ Cardinality({u \in users : u.email = e}) = 1
               /\ Cardinality({k \in AnsweredFresh(e) : inflight[k].res.status = 201}) = 1
               /\ \A k \in AnsweredFresh(e) : inflight[k].res.status \in {201, 400}
  /\ \A t \in issued \cup TokensGiven :
       \E u \in users : ToString(u._id) = t[2].userId

\* both lookups found nothing; one request stored the user, the other was
\* refused by the unique index
C30_Witness ==
  /\ AnsweredFresh("a@x.com") = {1, 2}
  /\ inflight[1].res.status = 201
  /\ inflight[2].res = [status |-> 400,
                        body |-> [success |-> FALSE,
                                  message |-> <<"Duplicate field value entered">>]]
  /\ Cardinality(users) = 1
====
